---- MODULE Spec2Model ----
(***************************************************************************)
(* Model of the in-memory table engine of NumeRe                           *)
(* (src/kernel/core/datamanagement/memory.cpp, class Memory).              *)
(*                                                                         *)
(* The table is a vector of column pointers (memArray); a column is either *)
(* a null pointer or a materialized column with its cells and a headline.  *)
(* The column class itself (tablecolumnimpl.hpp), the members of the class *)
(* declared in memory.hpp and the Sorter base class are not part of the    *)
(* sources at hand; the few operators that stand for them are marked       *)
(* below and follow the written specification of the engine.               *)
(***************************************************************************)
EXTENDS Integers, Sequences, FiniteSets, TLC

VARIABLES
    memArray,     \* std::vector<TblColPtr>: the columns, index k+1 = column k
    nCalcLines,   \* cached row count, -1 = invalid
    bIsSaved,     \* "saved" flag
    nLastSaved,   \* timestamp of the last save / first modification
    now,          \* the wall clock read by time(0)
    last          \* the last call: its name, arguments, result and error

vars == <<memArray, nCalcLines, bIsSaved, nLastSaved, now, last>>

---------------------------------------------------------------------------
(* Constants and bounds *)

\* #define MAX_TABLE_COLS 1e4, scaled down to keep the state space finite
MAX_TABLE_COLS == 2
\* #define MAX_TABLE_SIZE 1e8, scaled down likewise
MAX_TABLE_SIZE == 3
\* largest line index a call is made with
MaxLine == 1
\* the clock stops advancing here
MaxTime == 2
\* the tables that are sorted have the lines 0..MaxSortLine
MaxSortLine == 1

\* NAN: the missing value
NaN == -1
\* the valid cell values
Values == {1, 2}
Cells == Values \cup {NaN}

isnan(v) == v = NaN

Max2(a, b) == IF a >= b THEN a ELSE b

---------------------------------------------------------------------------
(* The column: a growable sequence of cells plus a headline *)

\* memArray[j] == nullptr
NullCol == [ex |-> FALSE, data |-> <<>>, head |-> ""]
\* new ValueColumn
NewCol == [ex |-> TRUE, data |-> <<>>, head |-> ""]

\* col->size(): the length is the high-water mark of the written cells
ColSize(col) == Len(col.data)

\* col->getValue(line): NaN for every cell beyond the length
ColGetValue(col, line) ==
    IF line >= 0 /\ line < Len(col.data) THEN col.data[line + 1] ELSE NaN

\* col->setValue(line, v): grows to fit, new cells in between are NaN
ColSetValue(col, line, v) ==
    [col EXCEPT !.data = <<>> \o
        [k \in 1..Max2(Len(col.data), line + 1) |->
            IF k = line + 1 THEN v
            ELSE IF k <= Len(col.data) THEN col.data[k] ELSE NaN]]

\* number of cells up to and including the last valid one
RECURSIVE LastValid(_)
LastValid(d) ==
    IF Len(d) = 0 THEN 0
    ELSE IF ~isnan(d[Len(d)]) THEN Len(d)
    ELSE LastValid(SubSeq(d, 1, Len(d) - 1))

\* col->shrink(): compacts the column, dropping the trailing missing cells
ColShrink(col) == [col EXCEPT !.data = SubSeq(col.data, 1, LastValid(col.data))]

---------------------------------------------------------------------------
(* The table as a value: what the member functions read and change *)

Tab(mem, calc, saved, ts) ==
    [mem |-> mem, calc |-> calc, saved |-> saved, ts |-> ts]

Current == Tab(memArray, nCalcLines, bIsSaved, nLastSaved)

Install(t) ==
    /\ memArray' = t.mem
    /\ nCalcLines' = t.calc
    /\ bIsSaved' = t.saved
    /\ nLastSaved' = t.ts

\* the result of a call: the table after it, the error thrown ("" = none)
Ok(t) == [tab |-> t, err |-> ""]
Throw(t, e) == [tab |-> t, err |-> e]

\* the time stamp set on every change, saved or not
markModifiedAlways(t, time) == [t EXCEPT !.ts = time, !.saved = FALSE]

\* if (bIsSaved) { nLastSaved = time(0); bIsSaved = false; }
markModified(t, time) ==
    IF t.saved THEN [t EXCEPT !.ts = time, !.saved = FALSE] ELSE t

\* memArray.resize(n): keeps the first n columns, appends null pointers
vectorResize(mem, n) ==
    [k \in 1..n |-> IF k <= Len(mem) THEN mem[k] ELSE NullCol]

\* Allocate with the capacity test off by one
AllocateOffByOne(t, nNCols, shrinkFlag) ==
    IF nNCols > MAX_TABLE_COLS + 1
    THEN Throw(t, "TOO_LARGE_CACHE")
    ELSE Ok([t EXCEPT !.mem = vectorResize(t.mem, nNCols)])

\* Memory::Allocate
Allocate(t, nNCols, shrinkFlag) ==
    IF nNCols > MAX_TABLE_COLS
    THEN Throw(t, "TOO_LARGE_CACHE")
    ELSE LET resized == vectorResize(t.mem, nNCols)
         IN  Ok([t EXCEPT !.mem =
                 IF shrinkFlag
                 THEN [k \in 1..nNCols |->
                          IF resized[k].ex THEN ColShrink(resized[k]) ELSE resized[k]]
                 ELSE resized])

\* Memory::resizeMemory: the line count is not looked at
resizeMemory(t, nLines, nCols) == Allocate(t, nCols, FALSE)

\* Memory::getCols
getCols(t) == Len(t.mem)

\* the scan of Memory::getLines: the longest materialized column
ScanLines(mem) ==
    LET sizes == {ColSize(mem[k]) : k \in {j \in 1..Len(mem) : mem[j].ex}}
    IN  IF sizes = {} THEN 0 ELSE CHOOSE s \in sizes : \A u \in sizes : u <= s

\* Memory::getLines: value returned
getLines(t) ==
    IF Len(t.mem) > 0
    THEN IF t.calc # -1 THEN t.calc ELSE ScanLines(t.mem)
    ELSE 0

\* Memory::getLines: the table afterwards (nCalcLines is mutable)
getLinesCache(t) ==
    IF Len(t.mem) > 0 /\ t.calc = -1 THEN [t EXCEPT !.calc = ScanLines(t.mem)] ELSE t

\* readMem answering 0 instead of NAN for a column that does not exist
readMemZero(t, nLine, nCol) ==
    IF Len(t.mem) > nCol /\ t.mem[nCol + 1].ex
    THEN ColGetValue(t.mem[nCol + 1], nLine)
    ELSE 0

\* Memory::readMem(size_t, size_t)
readMem(t, nLine, nCol) ==
    IF Len(t.mem) > nCol /\ t.mem[nCol + 1].ex
    THEN ColGetValue(t.mem[nCol + 1], nLine)
    ELSE NaN

\* the inner loop of readMem(const VectorIndex&, const VectorIndex&): the
\* cells of one line, from the j-th selected column on
RECURSIVE readMemCols(_, _, _, _)
readMemCols(t, line, vCol, j) ==
    IF j >= Len(vCol)
    THEN <<>>
    ELSE LET c == vCol[j + 1]
             v == IF c < 0 \/ c >= Len(t.mem) \/ ~t.mem[c + 1].ex
                  THEN NaN
                  ELSE ColGetValue(t.mem[c + 1], line)
         IN  <<v>> \o readMemCols(t, line, vCol, j + 1)

\* its outer loop: the selected lines from the i-th on
RECURSIVE readMemLines(_, _, _, _)
readMemLines(t, vLine, vCol, i) ==
    IF i >= Len(vLine)
    THEN <<>>
    ELSE readMemCols(t, vLine[i + 1], vCol, 0) \o readMemLines(t, vLine, vCol, i + 1)

\* the vector read with the test for a two-dimensional selection alone
readMemVNoEmptyTest(t, vLine, vCol) ==
    IF Len(vLine) > 1 /\ Len(vCol) > 1
    THEN <<NaN>>
    ELSE readMemLines(t, vLine, vCol, 0)

\* Memory::readMem(const VectorIndex&, const VectorIndex&)
readMemV(t, vLine, vCol) ==
    IF (Len(vLine) > 1 /\ Len(vCol) > 1) \/ Len(t.mem) = 0
    THEN <<NaN>>
    ELSE readMemLines(t, vLine, vCol, 0)

\* writeData without the early return for NaN on an empty table, and storing
\* into the line above the one asked for
writeDataSlip(t, nLine, nCol, dData, time) ==
    LET r == IF Len(t.mem) <= nCol THEN Allocate(t, nCol + 1, FALSE) ELSE Ok(t)
    IN  IF r.err # ""
        THEN r
        ELSE LET col == IF r.tab.mem[nCol + 1].ex THEN r.tab.mem[nCol + 1] ELSE NewCol
             IN  Ok(markModified([r.tab EXCEPT !.mem[nCol + 1] = ColSetValue(col, nLine + 1, dData),
                                               !.calc = -1], time))

\* Memory::writeData(size_t, size_t, const mu::value_type&)
writeData(t, nLine, nCol, dData, time) ==
    IF Len(t.mem) = 0 /\ isnan(dData)
    THEN Ok(t)
    ELSE LET r == IF Len(t.mem) <= nCol
                  THEN resizeMemory(t, nLine + 1, nCol + 1)
                  ELSE Ok(t)
         IN  IF r.err # ""
             THEN r
             ELSE LET col  == IF r.tab.mem[nCol + 1].ex THEN r.tab.mem[nCol + 1] ELSE NewCol
                      mem2 == [r.tab.mem EXCEPT ![nCol + 1] = ColSetValue(col, nLine, dData)]
                      calc == IF (isnan(dData) \/ nLine >= r.tab.calc) /\ r.tab.calc # -1
                              THEN -1 ELSE r.tab.calc
                  IN  Ok(markModified([r.tab EXCEPT !.mem = mem2, !.calc = calc], time))

\* dMemTable[i][j] read: the cell (i, j) of the table, NaN where nothing is stored
dMemTable(t, i, j) ==
    IF j >= 0 /\ j < Len(t.mem) /\ t.mem[j + 1].ex
    THEN ColGetValue(t.mem[j + 1], i)
    ELSE NaN

\* dMemTable[i][j] = v: stores v in the cell (i, j); storing NaN where nothing
\* is stored changes nothing
dMemTableSet(t, i, j, v) ==
    IF j < 0 \/ j >= Len(t.mem) \/ (isnan(v) /\ isnan(dMemTable(t, i, j)))
    THEN t
    ELSE LET col == IF t.mem[j + 1].ex THEN t.mem[j + 1] ELSE NewCol
         IN  [t EXCEPT !.mem[j + 1] = ColSetValue(col, i, v)]

\* nLines: the reserved number of lines
nLines(t) == ScanLines(t.mem)

\* nCols: the reserved number of columns
nCols(t) == Len(t.mem)

\* _lang.get("COMMON_COL") + "_" + toString(j+1): the default headline
DefaultHead == "COMMON_COL"

\* sHeadLine[j] = head
sHeadLineSet(t, j, head) ==
    IF j >= 0 /\ j < Len(t.mem) /\ t.mem[j + 1].ex
    THEN [t EXCEPT !.mem[j + 1].head = head]
    ELSE t

\* Memory::shrink
shrink(t) ==
    IF Len(t.mem) = 0
    THEN t
    ELSE LET shrunk == [k \in 1..Len(t.mem) |->
                           IF t.mem[k].ex THEN ColShrink(t.mem[k]) ELSE t.mem[k]]
             used   == {k \in 1..Len(shrunk) : shrunk[k].ex /\ ColSize(shrunk[k]) > 0}
         IN  IF used = {}
             THEN [t EXCEPT !.mem = shrunk]
             ELSE LET j == CHOOSE k \in used : \A u \in used : u <= k
                  IN  [t EXCEPT !.mem = IF j < Len(shrunk) THEN vectorResize(shrunk, j) ELSE shrunk]

\* Memory::clear
clear(t) == [t EXCEPT !.mem = <<>>, !.calc = -1, !.saved = FALSE]

\* Memory::setHeadLineElement
setHeadLineElement(t, i, sHead, time) ==
    LET r == IF i >= Len(t.mem) THEN resizeMemory(t, 1, i + 1) ELSE Ok(t)
    IN  IF r.err # ""
        THEN r
        ELSE LET col == IF r.tab.mem[i + 1].ex THEN r.tab.mem[i + 1] ELSE NewCol
             IN  Ok(markModified([r.tab EXCEPT !.mem[i + 1] = [col EXCEPT !.head = sHead]], time))

\* Memory::setSaveStatus
setSaveStatus(t, saved, time) ==
    IF saved THEN [t EXCEPT !.saved = TRUE, !.ts = time] ELSE [t EXCEPT !.saved = FALSE]

\* the whole column j holds no valid value in the lines 0 .. nLines-1
ColumnAllNaN(t, j) == \A i \in 0..(nLines(t) - 1) : isnan(dMemTable(t, i, j))

\* Memory::deleteEntry
deleteEntry(t, nLine, nCol, time) ==
    IF nLine < 0 \/ nCol < 0 \/ Len(t.mem) = 0 \/ isnan(dMemTable(t, nLine, nCol))
    THEN t
    ELSE LET t1 == markModified(dMemTableSet(t, nLine, nCol, NaN), time)
             t2 == IF nLines(t1) > 0 /\ ColumnAllNaN(t1, nCol) /\ nLine = 0
                   THEN sHeadLineSet(t1, nCol, DefaultHead)
                   ELSE t1
         IN  getLinesCache([t2 EXCEPT !.calc = -1])

\* the elements of a VectorIndex given as an explicit list
Elems(v) == {v[k] : k \in 1..Len(v)}

\* the NaN stores of Memory::deleteBulk, cell by cell in the order of the loops
RECURSIVE deleteCells(_, _, _, _)
deleteCells(t, vLine, vCol, n) ==
    IF n = 0
    THEN t
    ELSE LET prev == deleteCells(t, vLine, vCol, n - 1)
             i    == vLine[((n - 1) \div Len(vCol)) + 1]
             j    == vCol[((n - 1) % Len(vCol)) + 1]
         IN  IF j >= nCols(t) \/ j < 0 \/ i >= nLines(t) \/ i < 0
             THEN prev
             ELSE dMemTableSet(prev, i, j, NaN)

\* the headline resets of Memory::deleteBulk, column by column
RECURSIVE resetHeads(_, _, _, _)
resetHeads(t, vCol, bHasFirstLine, j) ==
    IF j < 0
    THEN t
    ELSE LET t1 == IF nLines(t) > 0 /\ ColumnAllNaN(t, j) /\ j \in Elems(vCol) /\ bHasFirstLine
                   THEN sHeadLineSet(t, j, DefaultHead)
                   ELSE t
         IN  resetHeads(t1, vCol, bHasFirstLine, j - 1)

\* Memory::deleteBulk
deleteBulk(t, vLine, vCol, time) ==
    IF getCols(t) = 0
    THEN t
    ELSE LET t1 == markModified(deleteCells(t, vLine, vCol, Len(vLine) * Len(vCol)), time)
             t2 == resetHeads(t1, vCol, 0 \in Elems(vLine), nCols(t1) - 1)
         IN  getLinesCache([t2 EXCEPT !.calc = -1])

---------------------------------------------------------------------------
(* Sorting *)

\* Memory::compare; a comparison with NaN is false, so that it yields 1
compare(t, i, j, col) ==
    LET a == dMemTable(t, i, col)
        b == dMemTable(t, j, col)
    IN  IF ~isnan(a) /\ ~isnan(b) /\ a = b
        THEN 0
        ELSE IF ~isnan(a) /\ ~isnan(b) /\ a < b THEN -1 ELSE 1

\* Memory::isValue
isValue(t, line, col) == ~isnan(dMemTable(t, line, col))

\* the element at position a of the index comes before the one at position b:
\* valid values before the invalid ones, valid values by compare and the
\* direction, equal elements as tie decides (1: in the order they have,
\* -1: in the opposite order)
qSortBefore(t, vIndex, nKey, nSign, tie, a, b) ==
    LET ra == vIndex[a]
        rb == vIndex[b]
    IN  IF isValue(t, ra, nKey) # isValue(t, rb, nKey)
        THEN isValue(t, ra, nKey)
        ELSE IF isValue(t, ra, nKey) /\ compare(t, ra, rb, nKey) # 0
             THEN nSign * compare(t, ra, rb, nKey) < 0
             ELSE tie * a < tie * b

\* Sorter::qSort over the whole index: the line numbers of vIndex, rearranged
\* so that column nKey is ordered
qSort(t, vIndex, nKey, nSign, tie) ==
    <<>> \o [p \in 1..Len(vIndex) |->
        vIndex[CHOOSE k \in 1..Len(vIndex) :
                  Cardinality({b \in 1..Len(vIndex) :
                                  qSortBefore(t, vIndex, nKey, nSign, tie, b, k)}) = p - 1]]

\* the second loop of reorderColumn: dMemTable[i + i1][j1] = dSortVector[i]
RECURSIVE reorderStore(_, _, _, _, _)
reorderStore(t, dSortVector, i1, j1, i) ==
    IF i >= Len(dSortVector)
    THEN t
    ELSE reorderStore(dMemTableSet(t, i + i1, j1, dSortVector[i + 1]),
                      dSortVector, i1, j1, i + 1)

\* Memory::reorderColumn
reorderColumn(t, vIndex, i1, i2, j1) ==
    reorderStore(t, <<>> \o [i \in 1..(i2 - i1 + 1) |-> dMemTable(t, vIndex[i], j1)],
                 i1, j1, 0)

\* for (j = i1; j <= i2; j++) vIndex[j] = j: the stores that land in the
\* vector; those at the positions from vIndex.size() on land behind it
resetIndex(vIndex, i1, i2) ==
    <<>> \o [k \in 1..Len(vIndex) |-> IF k - 1 >= i1 /\ k - 1 <= i2 THEN k - 1 ELSE vIndex[k]]

\* the reset stores behind the end of the vector
resetOutOfBounds(vIndex, i1, i2) == i1 <= i2 /\ i2 >= Len(vIndex)

\* the state of the sorting loops: the table, the index, the error thrown,
\* whether a store went behind the end of the index, and the order qSort
\* gives to equal elements
SortState(t, vIndex, err, oob, tie) ==
    [tab |-> t, vIndex |-> vIndex, err |-> err, oob |-> oob, tie |-> tie]

\* one column sorted for good: qSort, reorderColumn, and the reset of the index.
\* (A value used several times is bound by \in {..}, here and below, so that
\* it is computed once.)
sortColumn(s, i1, i2, col, nSign) ==
    CHOOSE r \in {SortState(reorderColumn(s.tab, sorted, i1, i2, col),
                            resetIndex(sorted, i1, i2), "",
                            s.oob \/ resetOutOfBounds(sorted, i1, i2), s.tie) :
                     sorted \in {qSort(s.tab, s.vIndex, col, nSign, s.tie)}} : TRUE

\* "Sort everything independently": the columns from i to j2; with
\* bReturnIndex the loop is left after the first qSort
RECURSIVE sortEverything(_, _, _, _, _, _, _)
sortEverything(s, i1, i2, i, j2, nSign, bReturnIndex) ==
    IF i > j2
    THEN s
    ELSE IF bReturnIndex
         THEN [s EXCEPT !.vIndex = qSort(s.tab, s.vIndex, i, nSign, s.tie)]
         ELSE CHOOSE r \in {sortEverything(s1, i1, i2, i + 1, j2, nSign, bReturnIndex) :
                               s1 \in {sortColumn(s, i1, i2, i, nSign)}} : TRUE

\* a group of key columns as evaluateKeyList delivers it: the columns nKey[0]
\* to nKey[1] - 1, counted from j1; nKey[1] = -1 stands for one column;
\* subkeys is the chain of the nested groups, here none
ColumnKeys(k0, k1) == [ok |-> TRUE, nKey |-> <<k0, k1>>, subkeys |-> <<>>]

\* keys->subkeys, keys->subkeys->subkeys, ...: the chain of the nested groups
\* of a group, each given by its nKey
withSubkeys(keys, subkeys) == [keys EXCEPT !.subkeys = subkeys]

\* what evaluateKeyList delivers for a malformed group: no instance
NoKeys == [ok |-> FALSE, nKey |-> <<0, 0>>, subkeys |-> <<>>]

\* the columns of the nested groups, in the order of the chain
RECURSIVE subkeyColumns(_)
subkeyColumns(subkeys) ==
    IF subkeys = <<>>
    THEN <<>>
    ELSE LET kEnd == IF subkeys[1][2] = -1 THEN subkeys[1][1] + 1 ELSE subkeys[1][2]
         IN  [k \in 1..Max2(kEnd - subkeys[1][1], 0) |-> subkeys[1][1] + k - 1]
                 \o subkeyColumns(Tail(subkeys))

\* "Reorder the subordinate key list": reorderColumn with the index of the
\* key column on the first n columns of the nested groups
RECURSIVE reorderSubkeys(_, _, _, _, _, _, _)
reorderSubkeys(t, vIndex, i1, i2, j1, cols, n) ==
    IF n = 0
    THEN t
    ELSE reorderColumn(reorderSubkeys(t, vIndex, i1, i2, j1, cols, n - 1),
                       vIndex, i1, i2, cols[n] + j1)

\* the position at which the run of equal elements in the columns tops begins
\* that the position p of the index lies in
RECURSIVE runStart(_, _, _, _)
runStart(t, vIndex, tops, p) ==
    IF p > 1 /\ \A c \in Elems(tops) : compare(t, vIndex[p], vIndex[p - 1], c) = 0
    THEN runStart(t, vIndex, tops, p - 1)
    ELSE p

\* Sorter::sortSubList: every run of equal elements of the higher groups is
\* sorted by the first column of the next nested group, down to the last but
\* one group of the chain; the last group is only reordered
RECURSIVE sortSubList(_, _, _, _, _, _, _)
sortSubList(t, vIndex, tops, subkeys, j1, nSign, tie) ==
    IF Len(subkeys) < 2
    THEN vIndex
    ELSE LET col == subkeys[1][1] + j1
             before(a, b) ==
                 \/ runStart(t, vIndex, tops, a) < runStart(t, vIndex, tops, b)
                 \/ /\ runStart(t, vIndex, tops, a) = runStart(t, vIndex, tops, b)
                    /\ qSortBefore(t, vIndex, col, nSign, tie, a, b)
             sorted == <<>> \o [p \in 1..Len(vIndex) |->
                          vIndex[CHOOSE k \in 1..Len(vIndex) :
                                    Cardinality({b \in 1..Len(vIndex) : before(b, k)}) = p - 1]]
         IN  sortSubList(t, sorted, Append(tops, col), Tail(subkeys), j1, nSign, tie)

\* the index of one key column: qSort, and sortSubList where the group has a
\* nested group that has a nested group itself
keyIndex(s, col, subkeys, j1, nSign) ==
    sortSubList(s.tab, qSort(s.tab, s.vIndex, col, nSign, s.tie), <<col>>, subkeys, j1,
                nSign, s.tie)

\* one key column sorted for good: its index, reorderColumn on it and on the
\* columns of its nested groups, and the reset of the index
sortKeyColumn(s, i1, i2, j1, col, subkeys, nSign) ==
    CHOOSE r \in {SortState(reorderSubkeys(reorderColumn(s.tab, sorted, i1, i2, col),
                                          sorted, i1, i2, j1, subkeyColumns(subkeys),
                                          Len(subkeyColumns(subkeys))),
                            resetIndex(sorted, i1, i2), "",
                            s.oob \/ resetOutOfBounds(sorted, i1, i2), s.tie) :
                     sorted \in {keyIndex(s, col, subkeys, j1, nSign)}} : TRUE

\* evaluateKeyList(sCols, j2 - j1 + 1): the next group of the key list
evaluateKeyList(sCols, nMax) == Head(sCols)

\* "Go through the group definition": the key columns from j to jEnd - 1
RECURSIVE sortKeyColumns(_, _, _, _, _, _, _, _, _)
sortKeyColumns(s, i1, i2, j1, j, jEnd, subkeys, nSign, bReturnIndex) ==
    IF j >= jEnd
    THEN s
    ELSE IF bReturnIndex
         THEN [s EXCEPT !.vIndex = keyIndex(s, j + j1, subkeys, j1, nSign)]
         ELSE CHOOSE r \in {sortKeyColumns(s1, i1, i2, j1, j + 1, jEnd, subkeys, nSign,
                                           bReturnIndex) :
                               s1 \in {sortKeyColumn(s, i1, i2, j1, j + j1, subkeys, nSign)}} :
                  TRUE

\* "As long as the column group definition has a length": the groups of sCols
RECURSIVE sortGroups(_, _, _, _, _, _, _, _)
sortGroups(s, i1, i2, j1, j2, sCols, nSign, bReturnIndex) ==
    IF sCols = <<>>
    THEN s
    ELSE LET keys == evaluateKeyList(sCols, j2 - j1 + 1)
             jEnd == IF keys.nKey[2] = -1 THEN keys.nKey[1] + 1 ELSE keys.nKey[2]
         IN  IF ~keys.ok
             THEN [s EXCEPT !.err = "CANNOT_SORT_CACHE"]
             ELSE CHOOSE r \in
                     {IF bReturnIndex
                      THEN s1
                      ELSE sortGroups(s1, i1, i2, j1, j2, Tail(sCols), nSign, bReturnIndex) :
                         s1 \in {sortKeyColumns(s, i1, i2, j1, keys.nKey[1], jEnd,
                                                keys.subkeys, nSign, bReturnIndex)}} : TRUE

\* the sorting expression: its options, and the groups of its cols= parameter
SortingExpression(desc, index, grouped, cols) ==
    [desc |-> desc, index |-> index, grouped |-> grouped, cols |-> cols]

\* the index returned as it is, without the step from line numbers to 1-based
incrementIndexNot(vIndex) == vIndex

\* for (i = 0; i <= i2 - i1; i++) vIndex[i]++
incrementIndex(vIndex) == <<>> \o [k \in 1..Len(vIndex) |-> vIndex[k] + 1]

\* what a call of sortElements yields: the table, the error thrown, the vector
\* returned, and whether a store went behind the end of the index
SortResult(t, err, ret, oob) == [tab |-> t, err |-> err, ret |-> ret, oob |-> oob]

\* Memory::sortElements
sortElements(t, i1In, i2In, j1In, j2In, sSortingExpression, tie, time) ==
    IF Len(t.mem) = 0
    THEN SortResult(t, "", <<>>, FALSE)
    ELSE LET i1 == Max2(0, i1In)
             j1 == Max2(0, j1In)
             nSign == IF sSortingExpression.desc THEN -1 ELSE 1
             i2 == IF i2In = -1 THEN i1 ELSE i2In
             j2 == IF j2In = -1 THEN j1 ELSE j2In
             vIndex == <<>> \o [k \in 1..(i2 - i1 + 1) |-> i1 + k - 1]
             bReturnIndex == sSortingExpression.index
             s0 == SortState(t, vIndex, "", FALSE, tie)
         IN  CHOOSE res \in
                {IF r.err # ""
                 THEN SortResult(r.tab, r.err, <<>>, r.oob)
                 ELSE SortResult(markModified([r.tab EXCEPT !.calc = -1], time), "",
                                 IF bReturnIndex THEN incrementIndex(r.vIndex) ELSE <<>>,
                                 r.oob) :
                    r \in {IF ~sSortingExpression.grouped
                           THEN sortEverything(s0, i1, i2, j1, j2, nSign, bReturnIndex)
                           ELSE sortGroups(s0, i1, i2, j1, j2, sSortingExpression.cols,
                                           nSign, bReturnIndex)}} : TRUE

---------------------------------------------------------------------------
(* The calls *)

Lines == 0..MaxLine
\* the values written in the life cycle of a table: a missing and a valid one
WriteVals == {NaN, 1}
\* one column beyond the cap, so that the capacity error happens
Cols == 0..MAX_TABLE_COLS

\* the selections a call is made with: single indices and the full range
Range(a, b) == [k \in 1..(b - a + 1) |-> a + k - 1]
LineSels == {<<l>> : l \in Lines} \cup {Range(0, MaxLine)}
ColSels == {<<c>> : c \in 0..(MAX_TABLE_COLS - 1)} \cup {Range(0, MAX_TABLE_COLS - 1)}

\* what is recorded of a call: its arguments and its outcome
Call(op, line, col, val, ret, err) ==
    [op |-> op, line |-> line, col |-> col, val |-> val, ret |-> ret, err |-> err]

Init ==
    /\ memArray = <<>>
    /\ nCalcLines = -1
    /\ bIsSaved = TRUE
    /\ nLastSaved = 0
    /\ now = 0
    /\ last = Call("Memory", 0, 0, NaN, 0, "")

DoAllocate(n, sh) ==
    LET r == Allocate(Current, n, sh)
    IN  /\ Install(r.tab)
        /\ last' = Call("Allocate", 0, n, NaN, 0, r.err)
        /\ UNCHANGED now

DoWriteData(l, c, v) ==
    LET r == writeData(Current, l, c, v, now)
    IN  /\ Install(r.tab)
        /\ last' = Call("writeData", l, c, v, 0, r.err)
        /\ UNCHANGED now

DoReadMem(l, c) ==
    /\ last' = Call("readMem", l, c, NaN, readMem(Current, l, c), "")
    /\ UNCHANGED <<memArray, nCalcLines, bIsSaved, nLastSaved, now>>

DoGetLines ==
    /\ Install(getLinesCache(Current))
    /\ last' = Call("getLines", 0, 0, NaN, getLines(Current), "")
    /\ UNCHANGED now

DoShrink ==
    /\ Install(shrink(Current))
    /\ last' = Call("shrink", 0, 0, NaN, 0, "")
    /\ UNCHANGED now

DoClear ==
    /\ Install(clear(Current))
    /\ last' = Call("clear", 0, 0, NaN, 0, "")
    /\ UNCHANGED now

DoSetHeadLineElement(i, sHead) ==
    LET r == setHeadLineElement(Current, i, sHead, now)
    IN  /\ Install(r.tab)
        /\ last' = Call("setHeadLineElement", 0, i, NaN, 0, r.err)
        /\ UNCHANGED now

DoSetSaveStatus(saved) ==
    /\ Install(setSaveStatus(Current, saved, now))
    /\ last' = Call("setSaveStatus", 0, 0, NaN, 0, "")
    /\ UNCHANGED now

\* deleteEntry is called with a cell of the reserved table
DoDeleteEntry(l, c) ==
    /\ l < nLines(Current) /\ c < nCols(Current)
    /\ Install(deleteEntry(Current, l, c, now))
    /\ last' = Call("deleteEntry", l, c, NaN, 0, "")
    /\ UNCHANGED now

DoDeleteBulk(vLine, vCol) ==
    /\ Install(deleteBulk(Current, vLine, vCol, now))
    /\ last' = Call("deleteBulk", 0, 0, NaN, 0, "")
    /\ UNCHANGED now

\* time passes between two calls
Tick ==
    /\ now < MaxTime
    /\ now' = now + 1
    /\ UNCHANGED <<memArray, nCalcLines, bIsSaved, nLastSaved, last>>

Next ==
    \/ \E n \in 0..(MAX_TABLE_COLS + 1), sh \in BOOLEAN : DoAllocate(n, sh)
    \/ \E l \in Lines, c \in Cols, v \in WriteVals : DoWriteData(l, c, v)
    \/ \E l \in 0..(MaxLine + 1), c \in Cols : DoReadMem(l, c)
    \/ DoGetLines
    \/ DoShrink
    \/ DoClear
    \/ \E i \in Cols : DoSetHeadLineElement(i, "h")
    \/ \E l \in Lines, c \in Cols : DoDeleteEntry(l, c)
    \/ \E vl \in LineSels, vc \in ColSels : DoDeleteBulk(vl, vc)

Spec == Init /\ [][Next]_vars

---------------------------------------------------------------------------
(* Properties of the life cycle *)

\* C1: in every reachable table, writeData(l, c, v) of a valid value v into a
\* column below the cap makes readMem(l, c) return v, and writeData(l, c, NaN)
\* on a table without columns changes nothing: no column appears, getCols and
\* getLines stay 0.
C1_WriteThenRead ==
    [][\A l \in Lines, c \in Cols, v \in WriteVals :
          (last'.line = l /\ last'.col = c /\ last'.val = v /\ DoWriteData(l, c, v)) =>
              /\ (~isnan(v) /\ c < MAX_TABLE_COLS) => readMem(Current, l, c)' = v
              /\ (isnan(v) /\ Len(memArray) = 0) =>
                    /\ UNCHANGED Current
                    /\ getCols(Current)' = 0
                    /\ getLines(Current)' = 0]_vars

\* a valid value was written below the first line and beside the first column
\* and is read back
C1_Witness ==
    /\ last.op = "writeData" /\ last.err = "" /\ ~isnan(last.val)
    /\ readMem(Current, last.line, last.col) = last.val
    /\ last.line > 0 /\ last.col > 0

\* C2: getLines(false) is the maximum over the columns of the highest valid
\* line index + 1, and 0 when no cell is valid.
C2_GetLinesIsMaxValid ==
    LET valid(col) == IF col.ex THEN LastValid(col.data) ELSE 0
        s == {valid(memArray[k]) : k \in 1..Len(memArray)}
    IN  getLines(Current) = IF s = {} THEN 0 ELSE CHOOSE x \in s : \A y \in s : y <= x

\* C3: Allocate(n, shrink=false) with n at most the column count leaves the
\* columns as they are.
C3_AllocateNeverShrinks ==
    [][\A n \in 0..(MAX_TABLE_COLS + 1) :
          (DoAllocate(n, FALSE) /\ n <= Len(memArray)) => memArray' = memArray]_vars

\* C4: the column count never exceeds MAX_TABLE_COLS; Allocate, writeData and
\* setHeadLineElement that need more columns end with the capacity error and
\* leave the columns, the cells, the cached line count and the saved flag alone.
C4_ColumnCap ==
    [][/\ Len(memArray') <= MAX_TABLE_COLS
       /\ \A n \in 0..(MAX_TABLE_COLS + 1), sh \in BOOLEAN :
             (n > MAX_TABLE_COLS /\ last'.op = "Allocate" /\ DoAllocate(n, sh)) =>
                 last'.err = "TOO_LARGE_CACHE" /\ UNCHANGED Current
       /\ \A l \in Lines, c \in Cols, v \in WriteVals :
             (c + 1 > MAX_TABLE_COLS /\ ~(Len(memArray) = 0 /\ isnan(v))
                  /\ last'.op = "writeData" /\ DoWriteData(l, c, v)) =>
                 last'.err = "TOO_LARGE_CACHE" /\ UNCHANGED Current
       /\ \A i \in Cols :
             (i + 1 > MAX_TABLE_COLS /\ last'.op = "setHeadLineElement"
                  /\ DoSetHeadLineElement(i, "h")) =>
                 last'.err = "TOO_LARGE_CACHE" /\ UNCHANGED Current]_vars

\* a write beyond the cap failed on a table that is full
C4_Witness ==
    /\ last.op = "writeData" /\ last.err = "TOO_LARGE_CACHE"
    /\ Len(memArray) = MAX_TABLE_COLS

\* C5: the number of cells, lines times columns, never exceeds MAX_TABLE_SIZE.
C5_CellCap == ScanLines(memArray) * Len(memArray) <= MAX_TABLE_SIZE

\* C6: readMem(line, col) returns NaN for a column at or beyond the column
\* count, for a column that is not materialized and for a line beyond the
\* column's length; it raises no error and changes nothing of the table.
C6_ReadAbsorbsInvalid ==
    [][\A l \in 0..(MaxLine + 1), c \in Cols :
          DoReadMem(l, c) =>
              /\ (\/ c >= Len(memArray)
                  \/ ~memArray[c + 1].ex
                  \/ l >= ColSize(memArray[c + 1])) => isnan(last'.ret)
              /\ last'.err = ""
              /\ UNCHANGED Current]_vars

\* a read beside a table that holds data came back as NaN
C6_Witness ==
    /\ last.op = "readMem" /\ isnan(last.ret)
    /\ Len(memArray) > 0 /\ last.col >= Len(memArray)
    /\ \E k \in 1..Len(memArray) : memArray[k].ex /\ ColSize(memArray[k]) > 0

---------------------------------------------------------------------------
(* The vector read, applied to every table of the bounds *)

\* the columns a table can hold: absent, or materialized with up to n cells
ColumnsUpTo(n) ==
    {NullCol} \cup
    {[ex |-> TRUE, data |-> d, head |-> ""] :
        d \in UNION {[1..k -> Cells] : k \in 0..n}}

\* the tables of up to MAX_TABLE_COLS columns
ReadTables == UNION {[1..k -> ColumnsUpTo(MaxLine + 1)] : k \in 0..MAX_TABLE_COLS}

\* the selections of up to two indices; a column index may be negative or
\* beyond the table
SelsOf(S) == UNION {[1..k -> S] : k \in 0..2}

InitRead ==
    /\ memArray \in ReadTables
    /\ nCalcLines = -1
    /\ bIsSaved = TRUE
    /\ nLastSaved = 0
    /\ now = 0
    /\ last = [op |-> "Memory"]

DoReadMemV(vLine, vCol) ==
    /\ last.op = "Memory"
    /\ last' = [op |-> "readMemV", vLine |-> vLine, vCol |-> vCol,
                ret |-> readMemV(Current, vLine, vCol)]
    /\ UNCHANGED <<memArray, nCalcLines, bIsSaved, nLastSaved, now>>

NextRead ==
    \E vl \in SelsOf(Lines), vc \in SelsOf(-1..MAX_TABLE_COLS) : DoReadMemV(vl, vc)

SpecRead == InitRead /\ [][NextRead]_vars

\* C7 as stated: readMem(lines, cols) returns exactly one NaN when both
\* selections have more than one element, and in every other case, a table
\* without columns included, lines.size() * cols.size() values in row-major
\* order, the stored value of each coordinate or NaN for an invalid one.
C7_AsStated ==
    last.op = "readMemV" =>
        LET n == Len(last.vLine)
            m == Len(last.vCol)
            cell(l, c) == IF c < 0 THEN NaN ELSE readMem(Current, l, c)
        IN  IF n > 1 /\ m > 1
            THEN last.ret = <<NaN>>
            ELSE last.ret = [k \in 1..(n * m) |->
                                cell(last.vLine[((k - 1) \div m) + 1],
                                     last.vCol[((k - 1) % m) + 1])]

\* C7: readMem(lines, cols) returns exactly one NaN when both selections have
\* more than one element or when the table has no columns; in every other
\* case it returns lines.size() * cols.size() values in row-major order, the
\* stored value of each coordinate or NaN for an invalid one.
C7_VectorRead ==
    last.op = "readMemV" =>
        LET n == Len(last.vLine)
            m == Len(last.vCol)
            cell(l, c) == IF c < 0 THEN NaN ELSE readMem(Current, l, c)
        IN  IF (n > 1 /\ m > 1) \/ Len(memArray) = 0
            THEN last.ret = <<NaN>>
            ELSE last.ret = [k \in 1..(n * m) |->
                                cell(last.vLine[((k - 1) \div m) + 1],
                                     last.vCol[((k - 1) % m) + 1])]

\* two columns of one line were read, a stored value and an invalid coordinate
C7_Witness ==
    /\ last.op = "readMemV"
    /\ Len(last.vLine) = 1 /\ Len(last.vCol) = 2
    /\ Len(last.ret) = 2 /\ ~isnan(last.ret[1]) /\ isnan(last.ret[2])
    /\ last.vCol[2] >= Len(memArray)

---------------------------------------------------------------------------
(* Sorting, applied to every table of the bounds *)

\* the tables of MaxSortLine + 1 lines: every column is materialized and holds
\* a cell, valid or not, in every line
SortTables ==
    UNION {[1..k -> {[ex |-> TRUE, data |-> d, head |-> ""] :
                        d \in [1..(MaxSortLine + 1) -> Cells]}] : k \in 0..MAX_TABLE_COLS}

\* the cols= parameters a call is made with
SortCols ==
    {<<ColumnKeys(0, -1)>>, <<ColumnKeys(0, 2)>>, <<NoKeys>>,
     <<ColumnKeys(1, -1), ColumnKeys(0, -1)>>,
     <<withSubkeys(ColumnKeys(0, -1), <<<<1, -1>>>>)>>,
     <<withSubkeys(ColumnKeys(1, -1), <<<<0, -1>>>>)>>,
     <<withSubkeys(ColumnKeys(0, -1), <<<<1, -1>>, <<1, -1>>>>)>>}

\* the sorting expressions: without cols=, and with each of the above
SortingExpressions ==
    {SortingExpression(d, x, FALSE, <<>>) : d \in BOOLEAN, x \in BOOLEAN} \cup
    {SortingExpression(d, x, TRUE, c) : d \in BOOLEAN, x \in BOOLEAN, c \in SortCols}

\* the key columns of the expression, counted from j1, lie in the table
KeysInTable(mem, j1, j2, expr) ==
    \A g \in 1..Len(expr.cols) :
        LET k == expr.cols[g].nKey
        IN  /\ j1 + (IF k[2] = -1 THEN k[1] + 1 ELSE k[2]) <= j2 + 1
            /\ \A c \in Elems(subkeyColumns(expr.cols[g].subkeys)) : j1 + c <= j2

InitSort ==
    /\ memArray \in SortTables
    /\ nCalcLines = -1
    /\ bIsSaved = TRUE
    /\ nLastSaved = 0
    /\ now = 0
    /\ last = [op |-> "Memory", err |-> ""]

\* what is recorded of a call of sortElements, its time included
SortCall(i1, i2, j1, j2, expr, tie, ret, err) ==
    [op |-> "sortElements", i1 |-> i1, i2 |-> i2, j1 |-> j1, j2 |-> j2,
     expr |-> expr, tie |-> tie, ret |-> ret, err |-> err, time |-> now]

\* a call of sortElements; where a store went behind the end of the index the
\* call either goes on as if nothing had happened or the process aborts
DoSortElements(i1, i2, j1, j2, expr, tie) ==
    \E r \in {sortElements(Current, i1, i2, j1, j2, expr, tie, now)} :
        /\ \/ /\ Install(r.tab)
              /\ last' = SortCall(i1, i2, j1, j2, expr, tie, r.ret, r.err)
           \/ /\ r.oob
              /\ UNCHANGED <<memArray, nCalcLines, bIsSaved, nLastSaved>>
              /\ last' = SortCall(i1, i2, j1, j2, expr, tie, <<>>, "abort")
        /\ UNCHANGED now

\* the calls made: every line range and column range of the table, the end
\* -1 standing for a range of one; the grouped sorts take all columns, and
\* equal elements in the opposite order are tried on the ungrouped sorts
NextSort ==
    /\ last.op = "Memory"
    /\ \E i1 \in 0..MaxSortLine, j1 \in 0..(Len(memArray) - 1), expr \in SortingExpressions,
          tie \in {1, -1} :
           \E i2 \in (IF i1 = MaxSortLine THEN {-1} ELSE {}) \cup i1..MaxSortLine,
              j2 \in (IF j1 = Len(memArray) - 1 THEN {-1} ELSE {}) \cup j1..(Len(memArray) - 1) :
               /\ expr.grouped => (j1 = 0 /\ j2 = Len(memArray) - 1 /\ tie = 1)
               /\ KeysInTable(memArray, j1, IF j2 = -1 THEN j1 ELSE j2, expr)
               /\ DoSortElements(i1, i2, j1, j2, expr, tie)

SpecSort == InitSort /\ [][NextSort]_vars

\* C9: sortElements with "index" on a line range i1..i2 of the table moves no
\* data, every cell has the value it had; the vector it returns holds each of
\* i1 + 1 .. i2 + 1 once, and the valid values of the first key column, read in
\* the order of the vector, ascend, or descend with "desc".
C9_IndexSort ==
    [][(/\ last'.op = "sortElements"
        /\ last'.expr.index
        /\ last'.err = ""
        /\ DoSortElements(last'.i1, last'.i2, last'.j1, last'.j2, last'.expr, last'.tie)) =>
          LET i1 == last'.i1
              i2 == IF last'.i2 = -1 THEN i1 ELSE last'.i2
              key == last'.j1 + (IF last'.expr.grouped THEN last'.expr.cols[1].nKey[1] ELSE 0)
              nSign == IF last'.expr.desc THEN -1 ELSE 1
              ret == last'.ret
              val(k) == dMemTable(Current, ret[k] - 1, key)
          IN  /\ memArray' = memArray
              /\ Len(ret) = i2 - i1 + 1
              /\ \A l \in i1..i2 : \E k \in 1..Len(ret) : ret[k] = l + 1
              /\ \A k \in 1..Len(ret), m \in 1..Len(ret) :
                    (k < m /\ ~isnan(val(k)) /\ ~isnan(val(m))) =>
                        nSign * val(k) <= nSign * val(m)]_vars

\* an index was returned that is not the line range in its own order
C9_Witness ==
    /\ last.op = "sortElements" /\ last.expr.index /\ last.err = ""
    /\ ~last.expr.desc /\ last.i1 = 0
    /\ last.ret = <<2, 1>>
    /\ dMemTable(Current, 0, last.j1) = 2 /\ dMemTable(Current, 1, last.j1) = 1

\* C10: for every line range i1..i2 and column range j1..j2 of the table,
\* sortElements without "index" and without cols= returns with the table in
\* which the lines i1..i2 of the columns j1..j2 are permuted by the vector
\* that the same call with "index" returns, every other cell as it was.
C10_SortIsIndexPermutation ==
    [][(/\ last'.op = "sortElements"
        /\ ~last'.expr.index
        /\ ~last'.expr.grouped
        /\ DoSortElements(last'.i1, last'.i2, last'.j1, last'.j2, last'.expr, last'.tie)) =>
          LET i1 == last'.i1
              i2 == IF last'.i2 = -1 THEN i1 ELSE last'.i2
              j1 == last'.j1
              j2 == IF last'.j2 = -1 THEN j1 ELSE last'.j2
          IN  /\ last'.err = ""
              /\ \A i \in 0..MaxSortLine, j \in 0..(Len(memArray) - 1),
                    idx \in {sortElements(Current, last'.i1, last'.i2, last'.j1, last'.j2,
                                          [last'.expr EXCEPT !.index = TRUE],
                                          last'.tie, now).ret} :
                    dMemTable(Current, i, j)' =
                        IF i \in i1..i2 /\ j \in j1..j2
                        THEN dMemTable(Current, idx[i - i1 + 1] - 1, j)
                        ELSE dMemTable(Current, i, j)]_vars

---------------------------------------------------------------------------
(* Saved flag and time stamp: the first column of a table over time *)

NextSave ==
    /\ last.err # "abort"
    /\ \/ Tick
       \/ \E saved \in BOOLEAN : DoSetSaveStatus(saved)
       \/ \E l \in Lines, v \in Cells : DoWriteData(l, 0, v)
       \/ DoSetHeadLineElement(0, "h")
       \/ \E l \in Lines : DoDeleteEntry(l, 0)
       \/ DoDeleteBulk(Range(0, MaxLine), <<0>>)
       \/ \E i1 \in Lines, i2 \in Lines, desc \in BOOLEAN :
             /\ i1 <= i2 /\ i2 < nLines(Current)
             /\ DoSortElements(i1, i2, 0, 0, SortingExpression(desc, FALSE, FALSE, <<>>), 1)

SpecSave == Init /\ [][NextSave]_vars

---------------------------------------------------------------------------
(* Retouching: the missing cells of a selection are filled *)

\* the valid values of the tables that are retouched: multiples of 6, so that
\* the quotients of the interpolation are whole numbers
RetouchValues == {6, 12}

\* the tables that are retouched have the lines 0..MaxRetouchLine
MaxRetouchLine == 2

\* bValidData: cleared when the table has neither lines nor columns
bValidData(t) == ~(getLines(t) = 0 /\ getCols(t) = 0)

\* VectorIndex::isValid: the selection holds an index
isValid(v) == Len(v) > 0 /\ v[1] >= 0

\* VectorIndex::setRange: every index is forced into nMin..nMax
setRange(v, nMin, nMax) ==
    [k \in 1..Len(v) |-> IF v[k] < nMin THEN nMin ELSE IF v[k] > nMax THEN nMax ELSE v[k]]

\* the quotient x / n of two numbers, x a multiple of n
Quotient(x, n) == IF x >= 0 THEN x \div n ELSE -((-x) \div n)

\* a selection and the direction in which its lines run
Selection(vLine, vCol, Direction) == [vLine |-> vLine, vCol |-> vCol, dir |-> Direction]

\* _vLine.size() or _vCol.size(): the number of lines that are scanned (outer
\* loop) and the length of each of them (inner loops)
scanCount(sel) == IF sel.dir = "LINES" THEN Len(sel.vLine) ELSE Len(sel.vCol)
scanLength(sel) == IF sel.dir = "LINES" THEN Len(sel.vCol) ELSE Len(sel.vLine)

\* dMemTable[_vLine[i]][_vCol[j]] resp. dMemTable[_vLine[j]][_vCol[i]]: the
\* element p of the scanned line o
scanCell(t, sel, o, p) ==
    IF sel.dir = "LINES"
    THEN dMemTable(t, sel.vLine[o + 1], sel.vCol[p + 1])
    ELSE dMemTable(t, sel.vLine[p + 1], sel.vCol[o + 1])

\* the store into the element p of the scanned line o
scanStore(t, sel, o, p, v) ==
    IF sel.dir = "LINES"
    THEN dMemTableSet(t, sel.vLine[o + 1], sel.vCol[p + 1], v)
    ELSE dMemTableSet(t, sel.vLine[p + 1], sel.vCol[o + 1], v)

\* (b - a) / (double)(_j - j) * (double)(__j - j + 1) + a; NaN when a or b is
interpolated(a, b, j, jFound, k) ==
    IF isnan(a) \/ isnan(b) THEN NaN ELSE Quotient(b - a, jFound - j) * (k - j + 1) + a

\* the three innermost loops, for (__j = k; __j < hi; __j++): "between"
\* interpolates from the element j - 1 to the element jFound, "first" copies
\* the element jFound, "last" the element j - 1
RECURSIVE retouchFill(_, _, _, _, _, _, _, _)
retouchFill(t, sel, o, j, jFound, kind, k, hi) ==
    IF k >= hi
    THEN t
    ELSE CHOOSE r \in
            {retouchFill(t1, sel, o, j, jFound, kind, k + 1, hi) :
                t1 \in {scanStore(t, sel, o, k,
                           IF kind = "between"
                           THEN interpolated(scanCell(t, sel, o, j - 1),
                                             scanCell(t, sel, o, jFound), j, jFound, k)
                           ELSE IF kind = "first"
                                THEN scanCell(t, sel, o, jFound)
                                ELSE scanCell(t, sel, o, j - 1))}} : TRUE

\* the table and whether a cell was filled (the local markModified)
RetouchState(t, mod) == [tab |-> t, mod |-> mod]

\* for (_j = jFound; _j < size; _j++): the search for the valid element that
\* ends the run of missing ones beginning at j
RECURSIVE retouchRun(_, _, _, _, _)
retouchRun(s, sel, o, j, jFound) ==
    IF jFound >= scanLength(sel)
    THEN s
    ELSE IF ~isnan(scanCell(s.tab, sel, o, jFound))
         THEN IF j > 0
              THEN RetouchState(retouchFill(s.tab, sel, o, j, jFound, "between", j, jFound), TRUE)
              ELSE IF jFound + 1 < scanLength(sel)
                   THEN RetouchState(retouchFill(s.tab, sel, o, j, jFound, "first", j, jFound), TRUE)
                   ELSE retouchRun(s, sel, o, j, jFound + 1)
         ELSE IF j > 0 /\ jFound + 1 = scanLength(sel)
              THEN RetouchState(retouchFill(s.tab, sel, o, j, jFound, "last", j, scanLength(sel)),
                                TRUE)
              ELSE retouchRun(s, sel, o, j, jFound + 1)

\* for (j = 0; j < size; j++): the scan of the line o
RECURSIVE retouchLine(_, _, _, _)
retouchLine(s, sel, o, j) ==
    IF j >= scanLength(sel)
    THEN s
    ELSE CHOOSE r \in
            {retouchLine(s1, sel, o, j + 1) :
                s1 \in {IF isnan(scanCell(s.tab, sel, o, j))
                        THEN retouchRun(s, sel, o, j, j)
                        ELSE s}} : TRUE

\* the outer loop: one scan for every line of the selection
RECURSIVE retouchLines(_, _, _)
retouchLines(s, sel, o) ==
    IF o >= scanCount(sel)
    THEN s
    ELSE CHOOSE r \in
            {retouchLines(s1, sel, o + 1) : s1 \in {retouchLine(s, sel, o, 0)}} : TRUE

\* Memory::retouch1D
retouch1D(t, vLine, vCol, Direction, time) ==
    CHOOSE r \in
        {IF s.mod /\ s.tab.saved
         THEN [s.tab EXCEPT !.saved = FALSE, !.ts = time]
         ELSE s.tab :
            s \in {IF Direction \in {"LINES", "COLS"}
                   THEN retouchLines(RetouchState(t, FALSE),
                                     Selection(vLine, vCol, Direction), 0)
                   ELSE RetouchState(t, FALSE)}} : TRUE

---------------------------------------------------------------------------
(* Statistics over a selection of cells *)

\* the valid values of the tables the statistics are taken of: 0 and a
\* multiple of 4, so that medians and quartiles are whole numbers
StatValues == {0, 4}

\* the columns of these tables hold up to MaxStatLine + 1 cells
MaxStatLine == 1

\* a selected cell outside of the table
OutOfRange == -2

\* _vLine[i] < 0 || _vLine[i] >= lines || _vCol[j] < 0 || _vCol[j] >= cols
outOfRange(t, line, col) ==
    line < 0 \/ line >= getLines(t) \/ col < 0 \/ col >= getCols(t)

\* the two loops over _vLine and _vCol: the selected cells in the order they
\* are visited, OutOfRange for those that are skipped by the range test
selectedCells(t, vLine, vCol) ==
    <<>> \o [k \in 1..(Len(vLine) * Len(vCol)) |->
        LET line == vLine[((k - 1) \div Len(vCol)) + 1]
            col  == vCol[((k - 1) % Len(vCol)) + 1]
        IN  IF outOfRange(t, line, col) THEN OutOfRange ELSE dMemTable(t, line, col)]

\* the cells that pass the range test
IsInRange(v) == v # OutOfRange
inRangeCells(t, vLine, vCol) == SelectSeq(selectedCells(t, vLine, vCol), IsInRange)

\* the cells that pass the range test, the missing ones among them
validCellsWithNaN(t, vLine, vCol) == SelectSeq(selectedCells(t, vLine, vCol), IsInRange)

\* the cells that pass the range test and the isnan test
IsValid(v) == v # OutOfRange /\ ~isnan(v)
validCells(t, vLine, vCol) == SelectSeq(selectedCells(t, vLine, vCol), IsValid)

\* dSum += x over a sequence
RECURSIVE SeqSum(_)
SeqSum(s) == IF s = <<>> THEN 0 ELSE Head(s) + SeqSum(Tail(s))

\* dPrd *= x over a sequence
RECURSIVE SeqPrd(_)
SeqPrd(s) == IF s = <<>> THEN 1 ELSE Head(s) * SeqPrd(Tail(s))

\* dNorm += x * x over a sequence
RECURSIVE SeqSquares(_)
SeqSquares(s) == IF s = <<>> THEN 0 ELSE Head(s) * Head(s) + SeqSquares(Tail(s))

\* a quotient of two numbers that is not computed: 0 / 0 is NaN
Fraction(n, d) == [n |-> n, d |-> d]

\* sqrt(x) of a number or of a quotient, not computed
Sqrt(x) == [radicand |-> x]

\* Memory::num
num(t, vLine, vCol) ==
    IF ~bValidData(t)
    THEN 0
    ELSE Len(vLine) * Len(vCol)
            - Cardinality({k \in 1..(Len(vLine) * Len(vCol)) :
                  \E c \in {selectedCells(t, vLine, vCol)[k]} : c = OutOfRange \/ isnan(c)})

\* Memory::cnt
cnt(t, vLine, vCol) ==
    IF ~bValidData(t)
    THEN 0
    ELSE Len(vLine) * Len(vCol)
            - Cardinality({k \in 1..(Len(vLine) * Len(vCol)) :
                  LET line == vLine[((k - 1) \div Len(vCol)) + 1]
                      col  == vCol[((k - 1) % Len(vCol)) + 1]
                  IN  line < 0 \/ line >= nLines(t) \/ col < 0 \/ col >= nCols(t)})

\* Memory::sum
sum(t, vLine, vCol) ==
    IF ~bValidData(t) THEN NaN ELSE SeqSum(validCells(t, vLine, vCol))

\* Memory::prd
prd(t, vLine, vCol) ==
    IF ~bValidData(t) THEN NaN ELSE SeqPrd(validCells(t, vLine, vCol))

\* Memory::norm
norm(t, vLine, vCol) ==
    IF ~bValidData(t) THEN NaN ELSE Sqrt(SeqSquares(validCells(t, vLine, vCol)))

\* Memory::avg
avg(t, vLine, vCol) ==
    IF ~bValidData(t) THEN NaN ELSE Fraction(sum(t, vLine, vCol), num(t, vLine, vCol))

\* dStd += (dAvg - x) * (dAvg - x), with dAvg = s / n: the sum, times n * n
RECURSIVE SeqDeviations(_, _, _)
SeqDeviations(cells, s, n) ==
    IF cells = <<>>
    THEN 0
    ELSE (s - n * Head(cells)) * (s - n * Head(cells)) + SeqDeviations(Tail(cells), s, n)

\* Memory::std: sqrt(dStd / (num - 1.0)), dStd being SeqDeviations / (num * num)
std(t, vLine, vCol) ==
    IF ~bValidData(t)
    THEN NaN
    ELSE CHOOSE r \in
            {Sqrt(Fraction(SeqDeviations(validCells(t, vLine, vCol), sum(t, vLine, vCol), n),
                           n * n * (n - 1))) : n \in {num(t, vLine, vCol)}} : TRUE

\* Memory::max
max(t, vLine, vCol) ==
    IF ~bValidData(t)
    THEN NaN
    ELSE CHOOSE r \in
            {IF s = {} THEN NaN ELSE CHOOSE x \in s : \A y \in s : y <= x :
                s \in {Elems(validCells(t, vLine, vCol))}} : TRUE

\* Memory::min
min(t, vLine, vCol) ==
    IF ~bValidData(t)
    THEN NaN
    ELSE CHOOSE r \in
            {IF s = {} THEN NaN ELSE CHOOSE x \in s : \A y \in s : y >= x :
                s \in {Elems(validCells(t, vLine, vCol))}} : TRUE

\* the test of and_func on a cell: isnan(x) || x == 0
IsFalse(v) == isnan(v) \/ v = 0
\* the test of or_func and xor_func on a cell: isnan(x) || x != 0
IsTrue(v) == isnan(v) \/ v # 0

\* Memory::and_func
and_func(t, vLine, vCol) ==
    IF ~bValidData(t)
    THEN 0
    ELSE CHOOSE r \in
            {IF c = <<>> \/ SelectSeq(c, IsFalse) # <<>> THEN 0 ELSE 1 :
                c \in {inRangeCells(t, vLine, vCol)}} : TRUE

\* Memory::or_func
or_func(t, vLine, vCol) ==
    IF ~bValidData(t)
    THEN 0
    ELSE IF SelectSeq(inRangeCells(t, vLine, vCol), IsTrue) # <<>> THEN 1 ELSE 0

\* Memory::xor_func
xor_func(t, vLine, vCol) ==
    IF ~bValidData(t)
    THEN 0
    ELSE IF Len(SelectSeq(inRangeCells(t, vLine, vCol), IsTrue)) = 1 THEN 1 ELSE 0

\* qSortDouble: the sequence in ascending order
RECURSIVE qSortDouble(_)
qSortDouble(s) ==
    IF s = <<>>
    THEN <<>>
    ELSE CHOOSE r \in
            {<<s[k]>> \o qSortDouble(SubSeq(s, 1, k - 1) \o SubSeq(s, k + 1, Len(s))) :
                k \in {CHOOSE p \in 1..Len(s) : \A m \in 1..Len(s) : s[p] <= s[m]}} : TRUE

\* the median as the upper of the two middle elements
gsl_stats_median_upper(data, n) == IF n = 0 THEN 0 ELSE data[(n \div 2) + 1]

\* gsl_stats_median_from_sorted_data
gsl_stats_median_from_sorted_data(data, n) ==
    LET lhs == (n - 1) \div 2
        rhs == n \div 2
    IN  IF n = 0
        THEN 0
        ELSE IF lhs = rhs
             THEN data[lhs + 1]
             ELSE Quotient(data[lhs + 1] + data[rhs + 1], 2)

\* the quantiles asked for are counted in quarters: f = quarters / 4
Quarters == 4

\* gsl_stats_quantile_from_sorted_data: index = f * (n - 1), lhs = (int)index,
\* delta = index - lhs, (1 - delta) * data[lhs] + delta * data[lhs + 1]
gsl_stats_quantile_from_sorted_data(data, n, quarters) ==
    LET lhs == (quarters * (n - 1)) \div Quarters
        rem == (quarters * (n - 1)) % Quarters
    IN  IF n = 0
        THEN 0
        ELSE IF lhs = n - 1
             THEN data[lhs + 1]
             ELSE Quotient((Quarters - rem) * data[lhs + 1], Quarters)
                      + Quotient(rem * data[lhs + 2], Quarters)

\* Memory::med
med(t, vLine, vCol) ==
    IF ~bValidData(t)
    THEN NaN
    ELSE CHOOSE r \in
            {IF vData = <<>>
             THEN NaN
             ELSE gsl_stats_median_from_sorted_data(qSortDouble(vData), Len(vData)) :
                vData \in {validCells(t, vLine, vCol)}} : TRUE

\* Memory::pct, dPct counted in quarters
pct(t, vLine, vCol, dPct) ==
    IF ~bValidData(t) \/ dPct >= Quarters \/ dPct <= 0
    THEN NaN
    ELSE CHOOSE r \in
            {IF vData = <<>>
             THEN NaN
             ELSE gsl_stats_quantile_from_sorted_data(qSortDouble(vData), Len(vData), dPct) :
                vData \in {validCells(t, vLine, vCol)}} : TRUE

---------------------------------------------------------------------------
(* Retouching in two dimensions *)

\* VectorIndex::front and VectorIndex::last of a selection
front(v) == v[1]
lastIndex(v) == v[Len(v)]

\* VectorIndex::subidx(pos, len): len indices from the position pos on
subidx(v, pos, len) == SubSeq(v, pos + 1, IF pos + len < Len(v) THEN pos + len ELSE Len(v))

\* VectorIndex::linearize: the range from the first to the last index
linearize(v) == Range(front(v), lastIndex(v))

\* Boundary(i, j, _row, _col): the rectangle with the first line n, the first
\* column m and the extents rows and cols
Boundary(n, m, rows, cols) == [n |-> n, m |-> m, rows |-> rows, cols |-> cols]
rf(b) == b.n
re(b) == b.n + b.rows
cf(b) == b.m
ce(b) == b.m + b.cols

\* Memory::onlyValidValues
onlyValidValues(t, vLine, vCol) == num(t, vLine, vCol) = cnt(t, vLine, vCol)

\* one pass of the loop of findValidBoundary: the four edges in their order
growLeft(t, vCol, b) ==
    IF ~onlyValidValues(t, Range(rf(b), re(b)), <<cf(b)>>) /\ cf(b) > front(vCol)
    THEN [b EXCEPT !.m = b.m - 1, !.cols = b.cols + 1]
    ELSE b
\* a right edge that stays where it is
growRightNot(t, vCol, b) == b
growRight(t, vCol, b) ==
    IF ~onlyValidValues(t, Range(rf(b), re(b)), <<ce(b)>>) /\ ce(b) < lastIndex(vCol)
    THEN [b EXCEPT !.cols = b.cols + 1]
    ELSE b
growTop(t, vLine, b) ==
    IF ~onlyValidValues(t, <<rf(b)>>, Range(cf(b), ce(b))) /\ rf(b) > front(vLine)
    THEN [b EXCEPT !.n = b.n - 1, !.rows = b.rows + 1]
    ELSE b
growBottom(t, vLine, b) ==
    IF ~onlyValidValues(t, <<re(b)>>, Range(cf(b), ce(b))) /\ re(b) < lastIndex(vLine)
    THEN [b EXCEPT !.rows = b.rows + 1]
    ELSE b

\* while (reEvaluateBoundaries): passes until no edge moves
RECURSIVE growBoundary(_, _, _, _)
growBoundary(t, vLine, vCol, b) ==
    CHOOSE r \in
        {IF b4 = b THEN b ELSE growBoundary(t, vLine, vCol, b4) :
            b4 \in {growBottom(t, vLine, b3) :
               b3 \in {growTop(t, vLine, b2) :
                  b2 \in {growRight(t, vCol, b1) :
                     b1 \in {growLeft(t, vCol, b)}}}}} : TRUE

\* Memory::findValidBoundary
findValidBoundary(t, vLine, vCol, i, j) ==
    growBoundary(t, vLine, vCol, Boundary(i - 1, j - 1, 2, 2))

\* RetouchRegion::retouch of a region with the fallback value dMedian: a valid
\* value is kept, a missing one becomes the blend of the region and the local
\* median dMed, for which the fallback stands where they are missing. The
\* tables retouched in two dimensions hold one valid value, of which every
\* blend is that value again.
regionRetouch(dMedian, val, dMed) ==
    IF ~isnan(val)
    THEN val
    ELSE IF isnan(dMedian)
         THEN NaN
         ELSE IF isnan(dMed) THEN dMedian ELSE Quotient(dMedian + dMed, 2)

\* the loops over the inside of the boundary ending one cell early
RECURSIVE fillRegionButLast(_, _, _, _)
fillRegionButLast(t, b, dMedian, k) ==
    IF k >= (b.rows - 1) * (b.cols - 1) - 1
    THEN t
    ELSE CHOOSE r \in
            {fillRegionButLast(t1, b, dMedian, k + 1) :
                t1 \in {dMemTableSet(t, n, m,
                           regionRetouch(dMedian, dMemTable(t, n, m),
                                         med(t, Range(n - 1, n + 1), Range(m - 1, m + 1)))) :
                           n \in {rf(b) + 1 + (k \div (b.cols - 1))},
                           m \in {cf(b) + 1 + (k % (b.cols - 1))}}} : TRUE

\* the two loops over the inside of the boundary, cell by cell: k counts the
\* cells (_n, _m) with rf < _n < re and cf < _m < ce
RECURSIVE fillRegion(_, _, _, _)
fillRegion(t, b, dMedian, k) ==
    IF k >= (b.rows - 1) * (b.cols - 1)
    THEN t
    ELSE CHOOSE r \in
            {fillRegion(t1, b, dMedian, k + 1) :
                t1 \in {dMemTableSet(t, n, m,
                           regionRetouch(dMedian, dMemTable(t, n, m),
                                         med(t, Range(n - 1, n + 1), Range(m - 1, m + 1)))) :
                           n \in {rf(b) + 1 + (k \div (b.cols - 1))},
                           m \in {cf(b) + 1 + (k % (b.cols - 1))}}} : TRUE

\* a boundary found, and whether a cell in it was valid when it was found
FoundBoundary(t, b) ==
    [b |-> b, valid |-> \E n \in rf(b)..re(b), m \in cf(b)..ce(b) : ~isnan(dMemTable(t, n, m))]

\* the state of retouch2D: the table, whether a cell was filled, and the
\* boundaries found so far
Retouch2DState(t, mod, found) == [tab |-> t, mod |-> mod, found |-> found]

\* the body of the loops of retouch2D for the cell (i, j)
retouchCell(s, vLine, vCol, i, j) ==
    IF ~isnan(dMemTable(s.tab, i, j))
    THEN s
    ELSE CHOOSE r \in
            {Retouch2DState(
                 fillRegion(s.tab, b, med(s.tab, Range(rf(b), re(b)), Range(cf(b), ce(b))), 0),
                 TRUE, s.found \cup {FoundBoundary(s.tab, b)}) :
                b \in {findValidBoundary(s.tab, vLine, vCol, i, j)}} : TRUE

\* for (i = front; i <= last; i++) for (j = front; j <= last; j++): k counts
\* the cells of the selection
RECURSIVE retouchCells(_, _, _, _)
retouchCells(s, vLine, vCol, k) ==
    IF k >= Len(vLine) * Len(vCol)
    THEN s
    ELSE CHOOSE r \in
            {retouchCells(s1, vLine, vCol, k + 1) :
                s1 \in {retouchCell(s, vLine, vCol, vLine[(k \div Len(vCol)) + 1],
                                    vCol[(k % Len(vCol)) + 1])}} : TRUE

\* what retouch yields: the table, whether it returned true, and the
\* boundaries retouch2D has filled
RetouchResult(t, ret, found) == [tab |-> t, ret |-> ret, found |-> found]

\* Memory::retouch2D, called with linearized selections
retouch2D(t, vLine, vCol, time) ==
    CHOOSE r \in
        {RetouchResult(IF s.mod /\ s.tab.saved
                       THEN [s.tab EXCEPT !.saved = FALSE, !.ts = time]
                       ELSE s.tab, TRUE, s.found) :
            s \in {retouchCells(Retouch2DState(t, FALSE, {}), vLine, vCol, 0)}} : TRUE

\* Memory::retouch from the test of the direction on, the selections forced
\* into the table; a closed selection of lines leaves bUseAppendedZeroes false
retouchDirected(t, vLine, vCol, Direction, time) ==
    IF Direction \in {"ALL", "GRID"} /\ Len(vLine) < 4
    THEN RetouchResult(retouch1D(t, vLine, vCol, "LINES", time), TRUE, {})
    ELSE IF Direction \in {"ALL", "GRID"} /\ Len(vCol) < 4
         THEN RetouchResult(retouch1D(t, vLine, vCol, "COLS", time), TRUE, {})
         ELSE IF Direction = "GRID"
              THEN CHOOSE r \in
                      {retouch2D(t1, linearize(vLine), linearize(subidx(vCol, 2, Len(vCol))),
                                 time) :
                          t1 \in {retouch1D(t, vLine,
                                            setRange(subidx(vCol, 0, 2), 0, nCols(t) - 1),
                                            "COLS", time)}} : TRUE
              ELSE IF Direction = "ALL"
                   THEN retouch2D(t, linearize(vLine), linearize(vCol), time)
                   ELSE RetouchResult(retouch1D(t, vLine, vCol, Direction, time), TRUE, {})

\* Memory::retouch
retouch(t, vLine, vCol, Direction, time) ==
    IF ~bValidData(t) \/ ~isValid(vLine) \/ ~isValid(vCol)
    THEN RetouchResult(t, FALSE, {})
    ELSE retouchDirected(t, setRange(vLine, 0, nLines(t) - 1),
                         setRange(vCol, 0, nCols(t) - 1), Direction, time)

---------------------------------------------------------------------------
(* Retouching, applied to every table of the bounds *)

RetouchCells == RetouchValues \cup {NaN}

\* the tables of MaxRetouchLine + 1 lines: every column is materialized and
\* holds a cell, valid or not, in every line
RetouchTables ==
    UNION {[1..k -> {[ex |-> TRUE, data |-> d, head |-> ""] :
                        d \in [1..(MaxRetouchLine + 1) -> RetouchCells]}] :
              k \in 1..MAX_TABLE_COLS}

\* the selections of lines: all lines, all but the first, the first, and a
\* range that ends behind the table
RetouchLineSels ==
    {Range(0, MaxRetouchLine), Range(1, MaxRetouchLine), <<0>>, Range(0, MaxRetouchLine + 1)}

\* the selections of columns: each column, both, and a range of four
RetouchColSels == {<<0>>, <<1>>, <<0, 1>>, Range(0, 3)}

\* enum AppDir
AppDir == {"LINES", "COLS", "ALL", "GRID"}

\* the valid cells of the table hold one value
OneValue(mem) ==
    \A j \in 1..Len(mem), k \in 1..Len(mem) :
        \A p \in 1..Len(mem[j].data), q \in 1..Len(mem[k].data) :
            (~isnan(mem[j].data[p]) /\ ~isnan(mem[k].data[q])) => mem[j].data[p] = mem[k].data[q]

InitRetouch ==
    /\ memArray \in RetouchTables
    /\ nCalcLines = -1
    /\ bIsSaved = TRUE
    /\ nLastSaved = 0
    /\ now = 0
    /\ last = [op |-> "Memory"]

\* what is recorded of a call of retouch
RetouchCall(vLine, vCol, Direction, r) ==
    [op |-> "retouch", vLine |-> vLine, vCol |-> vCol, dir |-> Direction,
     ret |-> r.ret, found |-> r.found]

DoRetouch(vLine, vCol, Direction) ==
    \E r \in {retouch(Current, vLine, vCol, Direction, now)} :
        /\ Install(r.tab)
        /\ last' = RetouchCall(vLine, vCol, Direction, r)
        /\ UNCHANGED now

\* the calls made: every direction with every selection; the calls that fill
\* in two dimensions are made on the tables that hold one valid value
NextRetouch ==
    /\ last.op = "Memory"
    /\ \E vLine \in RetouchLineSels, vCol \in RetouchColSels, Direction \in AppDir :
          /\ (Direction \in {"ALL", "GRID"} /\ Len(vLine) >= 4 /\ Len(vCol) >= 4)
                => OneValue(memArray)
          /\ DoRetouch(vLine, vCol, Direction)

SpecRetouch == InitRetouch /\ [][NextRetouch]_vars

\* C11: retouch in the direction LINES or COLS over a selection of distinct
\* cells of the table: where a scanned line holds the valid values a at the
\* position i and b at the position j > i and only missing ones between them,
\* the position k between them holds a + (b - a) * (k - i) / (j - i)
\* afterwards.
C11_Interpolation ==
    [][(/\ last'.op = "retouch"
        /\ last'.dir \in {"LINES", "COLS"}
        /\ DoRetouch(last'.vLine, last'.vCol, last'.dir)) =>
          \A sel \in {Selection(last'.vLine, last'.vCol, last'.dir)} :
             (/\ \A x \in Elems(sel.vLine) : x >= 0 /\ x < nLines(Current)
              /\ \A x \in Elems(sel.vCol) : x >= 0 /\ x < nCols(Current)
              /\ Cardinality(Elems(sel.vLine)) = Len(sel.vLine)
              /\ Cardinality(Elems(sel.vCol)) = Len(sel.vCol)) =>
                \A o \in 0..(scanCount(sel) - 1), i \in 0..(scanLength(sel) - 1),
                   j \in 0..(scanLength(sel) - 1) :
                    (/\ i < j
                     /\ ~isnan(scanCell(Current, sel, o, i))
                     /\ ~isnan(scanCell(Current, sel, o, j))
                     /\ \A k \in (i + 1)..(j - 1) : isnan(scanCell(Current, sel, o, k))) =>
                        \A k \in (i + 1)..(j - 1) :
                            scanCell(Current, sel, o, k)' * (j - i) =
                                scanCell(Current, sel, o, i) * (j - i)
                                    + (scanCell(Current, sel, o, j)
                                          - scanCell(Current, sel, o, i)) * (k - i)]_vars

\* C20: retouch in the direction LINES or COLS over a selection of distinct
\* cells of the table: in every scanned line that holds a valid value, the
\* missing cells before the first valid one hold its value afterwards, the
\* missing cells behind the last valid one hold the value of that one, and no
\* cell of the line is missing.
C20_LeadingAndTrailingRuns ==
    [][(/\ last'.op = "retouch"
        /\ last'.dir \in {"LINES", "COLS"}
        /\ DoRetouch(last'.vLine, last'.vCol, last'.dir)) =>
          \A sel \in {Selection(last'.vLine, last'.vCol, last'.dir)} :
             (/\ \A x \in Elems(sel.vLine) : x >= 0 /\ x < nLines(Current)
              /\ \A x \in Elems(sel.vCol) : x >= 0 /\ x < nCols(Current)
              /\ Cardinality(Elems(sel.vLine)) = Len(sel.vLine)
              /\ Cardinality(Elems(sel.vCol)) = Len(sel.vCol)) =>
                \A o \in 0..(scanCount(sel) - 1) :
                   \A valid \in {{p \in 0..(scanLength(sel) - 1) :
                                     ~isnan(scanCell(Current, sel, o, p))}} :
                      valid # {} =>
                         \A p \in 0..(scanLength(sel) - 1) :
                            /\ ~isnan(scanCell(Current, sel, o, p)')
                            /\ (\A q \in valid : p < q) =>
                                  \E q \in valid :
                                     /\ \A u \in valid : q <= u
                                     /\ scanCell(Current, sel, o, p)'
                                           = scanCell(Current, sel, o, q)
                            /\ (\A q \in valid : p > q) =>
                                  \E q \in valid :
                                     /\ \A u \in valid : q >= u
                                     /\ scanCell(Current, sel, o, p)'
                                           = scanCell(Current, sel, o, q)]_vars

\* C12: after retouch in two dimensions, every cell strictly inside a boundary
\* that findValidBoundary has chosen for a missing cell of the selection, and
\* that held a valid cell when it was chosen, is valid.
C12_NoNaNInsideBoundary ==
    last.op = "retouch" =>
        \A f \in last.found :
            f.valid =>
                \A n \in (rf(f.b) + 1)..(re(f.b) - 1), m \in (cf(f.b) + 1)..(ce(f.b) - 1) :
                    ~isnan(dMemTable(Current, n, m))

\* in a table of two columns a boundary that had grown over several lines
\* around missing cells, with a valid cell in it, was filled
C12_Witness ==
    /\ last.op = "retouch" /\ last.dir = "ALL" /\ Len(memArray) = 2
    /\ \E f \in last.found : f.valid /\ f.b.rows > 2

---------------------------------------------------------------------------
(* The statistics, applied to every table of the bounds *)

StatCells == StatValues \cup {NaN}

\* the tables of up to MAX_TABLE_COLS columns: a column is absent, or it is
\* materialized and holds a cell, valid or not, in each of MaxStatLine + 1 lines
StatTables ==
    UNION {[1..k -> {NullCol} \cup
                    {[ex |-> TRUE, data |-> d, head |-> ""] :
                        d \in [1..(MaxStatLine + 1) -> StatCells]}] :
              k \in 0..MAX_TABLE_COLS}

\* the selections of lines: each line, all lines, and a range that ends
\* behind the table
StatLineSels ==
    {<<l>> : l \in 0..MaxStatLine} \cup {Range(0, MaxStatLine), Range(0, MaxStatLine + 1)}

\* the selections of columns: each column, both, and ranges that begin before
\* and end behind the table
StatColSels == {<<0>>, <<1>>, <<0, 1>>, <<-1, 0>>, Range(0, MAX_TABLE_COLS)}

\* the reductions of a selection
Statistics ==
    {"std", "avg", "max", "min", "prd", "sum", "num", "and_func", "or_func", "xor_func",
     "cnt", "norm", "med"}

\* the call of the reduction of that name
statistic(f, t, vLine, vCol) ==
    CASE f = "std" -> std(t, vLine, vCol)
      [] f = "avg" -> avg(t, vLine, vCol)
      [] f = "max" -> max(t, vLine, vCol)
      [] f = "min" -> min(t, vLine, vCol)
      [] f = "prd" -> prd(t, vLine, vCol)
      [] f = "sum" -> sum(t, vLine, vCol)
      [] f = "num" -> num(t, vLine, vCol)
      [] f = "and_func" -> and_func(t, vLine, vCol)
      [] f = "or_func" -> or_func(t, vLine, vCol)
      [] f = "xor_func" -> xor_func(t, vLine, vCol)
      [] f = "cnt" -> cnt(t, vLine, vCol)
      [] f = "norm" -> norm(t, vLine, vCol)
      [] f = "med" -> med(t, vLine, vCol)

InitStat ==
    /\ memArray \in StatTables
    /\ nCalcLines = -1
    /\ bIsSaved = TRUE
    /\ nLastSaved = 0
    /\ now = 0
    /\ last = [op |-> "Memory"]

\* what is recorded of a call of a reduction; dPct is 0 but for pct
StatCall(f, vLine, vCol, dPct, ret) ==
    [op |-> f, vLine |-> vLine, vCol |-> vCol, dPct |-> dPct, ret |-> ret]

DoStatistic(f, vLine, vCol) ==
    /\ last.op = "Memory"
    /\ last' = StatCall(f, vLine, vCol, 0, statistic(f, Current, vLine, vCol))
    /\ UNCHANGED <<memArray, nCalcLines, bIsSaved, nLastSaved, now>>

DoPct(vLine, vCol, dPct) ==
    /\ last.op = "Memory"
    /\ last' = StatCall("pct", vLine, vCol, dPct, pct(Current, vLine, vCol, dPct))
    /\ UNCHANGED <<memArray, nCalcLines, bIsSaved, nLastSaved, now>>

NextStat ==
    \/ \E f \in Statistics, vLine \in StatLineSels, vCol \in StatColSels :
          DoStatistic(f, vLine, vCol)
    \/ \E vLine \in StatLineSels, vCol \in StatColSels, dPct \in 0..Quarters :
          DoPct(vLine, vCol, dPct)

SpecStat == InitStat /\ [][NextStat]_vars

\* C13: for every table and every selection that holds a valid cell of the
\* table, pct(lines, cols, 0.5) is med(lines, cols).
C13_MedianIsHalfQuantile ==
    (last.op = "pct" /\ 2 * last.dPct = Quarters) =>
        ((\E l \in Elems(last.vLine), c \in Elems(last.vCol) :
             l >= 0 /\ c >= 0 /\ ~isnan(readMem(Current, l, c))) =>
            last.ret = med(Current, last.vLine, last.vCol))

\* the half quantile of two different values was asked for and lies between them
C13_Witness ==
    /\ last.op = "pct" /\ 2 * last.dPct = Quarters
    /\ Len(last.vLine) * Len(last.vCol) >= 2
    /\ \E l \in Elems(last.vLine), c \in Elems(last.vCol) :
          l >= 0 /\ c >= 0 /\ readMem(Current, l, c) = 0
    /\ \E l \in Elems(last.vLine), c \in Elems(last.vCol) :
          l >= 0 /\ c >= 0 /\ readMem(Current, l, c) = 4
    /\ last.ret = 2

\* C14 as stated: for every selection num is the number of selected cells that
\* are in the table and valid; sum, prd, min, max and norm are the sum, the
\* product, the least, the greatest and the root of the sum of the squares of
\* exactly those cells, avg is sum / num, and min and max are NaN when there is
\* no such cell; this on every table, one without data included.
C14_AsStated ==
    last.op \in {"num", "sum", "prd", "min", "max", "norm", "avg"} =>
        LET m == Len(last.vCol)
            line(k) == last.vLine[((k - 1) \div m) + 1]
            col(k) == last.vCol[((k - 1) % m) + 1]
            val(k) == readMem(Current, line(k), col(k))
            P == {k \in 1..(Len(last.vLine) * m) :
                     line(k) >= 0 /\ col(k) >= 0 /\ ~isnan(val(k))}
            V == {val(k) : k \in P}
            Sum[Q \in SUBSET P] ==
                IF Q = {} THEN 0 ELSE LET x == CHOOSE x \in Q : TRUE IN val(x) + Sum[Q \ {x}]
            Prd[Q \in SUBSET P] ==
                IF Q = {} THEN 1 ELSE LET x == CHOOSE x \in Q : TRUE IN val(x) * Prd[Q \ {x}]
            Sq[Q \in SUBSET P] ==
                IF Q = {} THEN 0
                ELSE LET x == CHOOSE x \in Q : TRUE IN val(x) * val(x) + Sq[Q \ {x}]
        IN  CASE last.op = "num" -> last.ret = Cardinality(P)
              [] last.op = "sum" -> last.ret = Sum[P]
              [] last.op = "prd" -> last.ret = Prd[P]
              [] last.op = "min" ->
                    IF P = {} THEN isnan(last.ret)
                    ELSE last.ret \in V /\ \A v \in V : last.ret <= v
              [] last.op = "max" ->
                    IF P = {} THEN isnan(last.ret)
                    ELSE last.ret \in V /\ \A v \in V : last.ret >= v
              [] last.op = "norm" -> bValidData(Current) /\ last.ret = Sqrt(Sq[P])
              [] last.op = "avg" ->
                    bValidData(Current) /\ last.ret = Fraction(Sum[P], Cardinality(P))

\* C14: on a table that holds data, for every selection num is the number of
\* selected cells that are in the table and valid; sum, prd, min, max and norm
\* are the sum, the product, the least, the greatest and the root of the sum
\* of the squares of exactly those cells, avg is sum / num, and min and max
\* are NaN when there is no such cell. On a table without data num is 0 and
\* the others are NaN.
C14_Reductions ==
    last.op \in {"num", "sum", "prd", "min", "max", "norm", "avg"} =>
        LET m == Len(last.vCol)
            line(k) == last.vLine[((k - 1) \div m) + 1]
            col(k) == last.vCol[((k - 1) % m) + 1]
            val(k) == readMem(Current, line(k), col(k))
            P == {k \in 1..(Len(last.vLine) * m) :
                     line(k) >= 0 /\ col(k) >= 0 /\ ~isnan(val(k))}
            V == {val(k) : k \in P}
            Sum[Q \in SUBSET P] ==
                IF Q = {} THEN 0 ELSE LET x == CHOOSE x \in Q : TRUE IN val(x) + Sum[Q \ {x}]
            Prd[Q \in SUBSET P] ==
                IF Q = {} THEN 1 ELSE LET x == CHOOSE x \in Q : TRUE IN val(x) * Prd[Q \ {x}]
            Sq[Q \in SUBSET P] ==
                IF Q = {} THEN 0
                ELSE LET x == CHOOSE x \in Q : TRUE IN val(x) * val(x) + Sq[Q \ {x}]
        IN  IF ~bValidData(Current)
            THEN IF last.op = "num" THEN last.ret = 0 ELSE isnan(last.ret)
            ELSE CASE last.op = "num" -> last.ret = Cardinality(P)
                   [] last.op = "sum" -> last.ret = Sum[P]
                   [] last.op = "prd" -> last.ret = Prd[P]
                   [] last.op = "min" ->
                         IF P = {} THEN isnan(last.ret)
                         ELSE last.ret \in V /\ \A v \in V : last.ret <= v
                   [] last.op = "max" ->
                         IF P = {} THEN isnan(last.ret)
                         ELSE last.ret \in V /\ \A v \in V : last.ret >= v
                   [] last.op = "norm" -> last.ret = Sqrt(Sq[P])
                   [] last.op = "avg" -> last.ret = Fraction(Sum[P], Cardinality(P))

\* the sum of two valid cells was taken over a selection that also holds a
\* missing cell and a line behind the table
C14_Witness ==
    /\ last.op = "sum" /\ last.ret = 8
    /\ \E l \in Elems(last.vLine) : l >= getLines(Current)
    /\ \E l \in Elems(last.vLine), c \in Elems(last.vCol) :
          l < getLines(Current) /\ c >= 0 /\ c < getCols(Current)
             /\ isnan(readMem(Current, l, c))

\* C15: for every selection that holds a valid cell of the table, and_func is
\* 1 when every such cell is not 0 and 0 otherwise; for every selection,
\* or_func is 1 when one valid cell of the table is not 0, xor_func when
\* exactly one is, and 0 otherwise: the missing cells do not count.
C15_LogicExcludesNaN ==
    last.op \in {"and_func", "or_func", "xor_func"} =>
        LET m == Len(last.vCol)
            line(k) == last.vLine[((k - 1) \div m) + 1]
            col(k) == last.vCol[((k - 1) % m) + 1]
            val(k) == readMem(Current, line(k), col(k))
            P == {k \in 1..(Len(last.vLine) * m) :
                     line(k) >= 0 /\ col(k) >= 0 /\ ~isnan(val(k))}
            T == {k \in P : val(k) # 0}
        IN  CASE last.op = "and_func" -> P # {} => last.ret = (IF T = P THEN 1 ELSE 0)
              [] last.op = "or_func" -> last.ret = (IF T # {} THEN 1 ELSE 0)
              [] last.op = "xor_func" -> last.ret = (IF Cardinality(T) = 1 THEN 1 ELSE 0)

\* C16: for every selection that holds N >= 1 valid cells of the table, the
\* square of std is the sum of the squares of the deviations of these cells
\* from their mean, divided by N.
C16_PopulationStd ==
    last.op = "std" =>
        LET m == Len(last.vCol)
            line(k) == last.vLine[((k - 1) \div m) + 1]
            col(k) == last.vCol[((k - 1) % m) + 1]
            val(k) == readMem(Current, line(k), col(k))
            P == {k \in 1..(Len(last.vLine) * m) :
                     line(k) >= 0 /\ col(k) >= 0 /\ ~isnan(val(k))}
            N == Cardinality(P)
            Sum[Q \in SUBSET P] ==
                IF Q = {} THEN 0 ELSE LET x == CHOOSE x \in Q : TRUE IN val(x) + Sum[Q \ {x}]
            \* the squares of the deviations from Sum[P] / N, times N * N
            Dev[Q \in SUBSET P] ==
                IF Q = {} THEN 0
                ELSE LET x == CHOOSE x \in Q : TRUE
                     IN  (Sum[P] - N * val(x)) * (Sum[P] - N * val(x)) + Dev[Q \ {x}]
        IN  N >= 1 =>
               /\ last.ret.radicand.d # 0
               /\ last.ret.radicand.n * N * N * N = Dev[P] * last.ret.radicand.d


---------------------------------------------------------------------------
(* Properties of shrink and of the cached line count *)

\* C17: after shrink() the table has no trailing empty column: it has no
\* column at all, or its last column is materialized and holds a cell; this
\* also when every column of the table is empty; and every column that holds
\* a valid cell is still in the table with its valid cells.
C17_ShrinkDropsTrailingEmpty ==
    [][DoShrink =>
          /\ \/ Len(memArray') = 0
             \/ memArray'[Len(memArray')].ex /\ ColSize(memArray'[Len(memArray')]) > 0
          /\ \A k \in 1..Len(memArray) :
                (memArray[k].ex /\ LastValid(memArray[k].data) > 0) =>
                    /\ k <= Len(memArray')
                    /\ memArray'[k] = ColShrink(memArray[k])]_vars


\* C19: in every reachable state in which the cached line count is valid
\* (nCalcLines is not -1), it is the value the scan of getLines over all
\* columns computes.
C19_CacheCoherent ==
    nCalcLines # -1 => nCalcLines = ScanLines(memArray)


---------------------------------------------------------------------------
(* Resampling *)

\* the valid cell values of the resampled tables
ResampleValues == {6, 12}
\* the highest line of the resampled tables
MaxResampleLine == 3
\* the highest sample count asked for
MaxSamples == 5

\* the number of values of a size_t; an unsigned difference below 0 wraps
\* around to a number beyond every table
SIZE_T_RANGE == 65536
toSizeT(x) == x % SIZE_T_RANGE

\* new Resampler(src_x, src_y, dst_x, dst_y, BOUNDARY_CLAMP, 1.0, 0.0, "lanczos6")
Resampler(src_x, src_y, dst_x, dst_y) ==
    [src_x |-> src_x, src_y |-> src_y, dst_x |-> dst_x, dst_y |-> dst_y]

\* the samples handed to put_line, line by line: dMemTable[_vLine[i]][_vCol[j]]
inputSamples(t, vLine, vCol) ==
    {dMemTable(t, vLine[i], vCol[j]) : i \in 1..Len(vLine), j \in 1..Len(vCol)}

\* what get_line delivers: the kernel is normalized and the boundary clamped,
\* a block that holds one value in every sample is resampled to that value
outputSample(samples) == IF Cardinality(samples) = 1 THEN CHOOSE v \in samples : TRUE ELSE NaN

\* the resample buffer and whether a store went beyond it
BufferState(buf, ub) == [buf |-> buf, ub |-> ub]

\* new double[__nLines][__nCols], set to NAN, and the copy of the whole memory
\* as it was at the call (__nOrigLines, __nOrigCols) into it
dResampleBuffer(t, bufLines, bufCols, nOrigLines, nOrigCols) ==
    <<>> \o [i \in 1..bufLines |->
               <<>> \o [j \in 1..bufCols |->
                          IF i <= nOrigLines /\ j <= nOrigCols
                          THEN dMemTable(t, i - 1, j - 1)
                          ELSE NaN]]

\* dResampleBuffer[i][j] = v; a store beyond the buffer is undefined
bufferStore(s, i, j, v) ==
    IF i >= 0 /\ i < Len(s.buf) /\ j >= 0 /\ j < Len(s.buf[i + 1])
    THEN [s EXCEPT !.buf[i + 1][j + 1] = v]
    ELSE [s EXCEPT !.ub = TRUE]

\* a list of stores <<i, j, v>>, carried out in its order
RECURSIVE bufferStores(_, _, _)
bufferStores(s, stores, n) ==
    IF n = 0
    THEN s
    ELSE \* the store n after the stores before it
         CHOOSE r \in {bufferStore(prev, stores[n][1], stores[n][2], stores[n][3]) :
                          prev \in {bufferStores(s, stores, n - 1)}} : TRUE

\* the resampled lines, drained from the resampler in their order and stored
\* from _vLine.front() and _vCol.front() on: _final_cols samples of each line
resampledStores(rs, vLine, vCol, nFinalCols, v) ==
    [k \in 1..(rs.dst_y * nFinalCols) |->
        <<front(vLine) + ((k - 1) \div nFinalCols),
          front(vCol) + ((k - 1) % nFinalCols), v>>]

\* the number of lines the resampler delivers: _ret_line after the last drain
retLine(rs) == rs.dst_y

\* the block below the resampled one, copied behind it (_vLine.size() <
\* nSamples): the stores, and whether a target line lies behind the table
belowStores(t, vLine, vCol, nRetLine, nOrigLines) ==
    LET n == Max2(nOrigLines - (lastIndex(vLine) + 1), 0)
    IN  [k \in 1..(n * Len(vCol)) |->
            LET i == lastIndex(vLine) + 1 + ((k - 1) \div Len(vCol))
                j == vCol[((k - 1) % Len(vCol)) + 1]
            IN  <<nRetLine + i - (lastIndex(vLine) + 1) + front(vLine), j, dMemTable(t, i, j)>>]

\* the lines from nSamples - 1 on, set to NaN (_vLine.size() > nSamples)
lineRestStores(vLine, vCol, nSamples) ==
    LET n == Max2(Len(vLine) - (nSamples - 1), 0)
    IN  [k \in 1..(n * Len(vCol)) |->
            <<vLine[nSamples + ((k - 1) \div Len(vCol))], vCol[((k - 1) % Len(vCol)) + 1], NaN>>]

\* the block right of the resampled one, copied behind it (_vCol.size() <
\* nSamples)
rightStores(t, vLine, vCol, nFinalCols, nOrigLines, nOrigCols) ==
    LET n == Max2(nOrigCols - (lastIndex(vCol) + 1), 0)
    IN  [k \in 1..(nOrigLines * n) |->
            LET i == (k - 1) \div n
                j == lastIndex(vCol) + 1 + ((k - 1) % n)
            IN  <<i, nFinalCols + j - (lastIndex(vCol) + 1) + front(vCol), dMemTable(t, i, j)>>]

\* the columns from nSamples - 1 on, set to NaN (_vCol.size() > nSamples)
colRestStores(vLine, vCol, nSamples) ==
    LET n == Max2(Len(vCol) - (nSamples - 1), 0)
    IN  [k \in 1..(Len(vLine) * n) |->
            <<vLine[((k - 1) \div n) + 1], vCol[nSamples + ((k - 1) % n)], NaN>>]

\* the copy of the buffer back into the table: dMemTable[i][j] =
\* dResampleBuffer[i][j] for the first rows lines and cols columns
RECURSIVE copyBack(_, _, _, _, _)
copyBack(t, buf, rows, cols, n) ==
    IF n = 0
    THEN t
    ELSE LET i == (n - 1) \div cols
             j == (n - 1) % cols
         IN  CHOOSE r \in {dMemTableSet(prev, i, j, buf[i + 1][j + 1]) :
                              prev \in {copyBack(t, buf, rows, cols, n - 1)}} : TRUE

\* the first of a set of positions
firstOf(S) == CHOOSE k \in S : \A u \in S : k <= u

\* the result of a call of resample: the table, the error thrown, whether a
\* store went beyond the buffer, whether the resampler was fed with different
\* values, and the lines and columns the resampled block ends at
ResampleResult(t, err, ub, mixed) ==
    [tab |-> t, err |-> err, ub |-> ub, mixed |-> mixed, need |-> <<0, 0>>]

\* resizeMemory as called by resample to "determine the final size"
resampleResize(t, vLine, vCol, nSamples, Direction) ==
    IF Direction \in {"ALL", "GRID"}
    THEN IF nSamples > Len(vLine) \/ nSamples > Len(vCol)
         THEN resizeMemory(t, nLines(t) + nSamples - Len(vLine),
                           toSizeT(nCols(t) + nSamples - Len(vCol)))
         ELSE Ok(t)
    ELSE IF Direction = "COLS"
         THEN IF nSamples > Len(vLine)
              THEN resizeMemory(t, nLines(t) + nSamples - Len(vLine), toSizeT(nCols(t) - 1))
              ELSE Ok(t)
         ELSE IF nSamples > Len(vCol)
              THEN resizeMemory(t, nLines(t) - 1, toSizeT(nCols(t) + nSamples - Len(vCol)))
              ELSE Ok(t)

\* __nLines and __nCols, the extents of the buffer
bufferLines(nOrigLines, vLine, nSamples, Direction) ==
    IF Direction \in {"GRID", "COLS"} /\ nSamples > Len(vLine)
    THEN nOrigLines + nSamples - Len(vLine)
    ELSE nOrigLines

bufferCols(nOrigCols, vCol, nSamples, Direction) ==
    IF Direction \in {"GRID", "LINES"} /\ nSamples > Len(vCol)
    THEN nOrigCols + nSamples - Len(vCol)
    ELSE nOrigCols

\* Memory::resample from the creation of the resampler on: t is the table at
\* that point, nOrigLines and nOrigCols are its extents at the call
resampleBlock(t, nOrigLines, nOrigCols, vLine, vCol, nSamples, Direction, time) ==
    LET rs == IF Direction \in {"ALL", "GRID"}
              THEN Resampler(Len(vCol), Len(vLine), nSamples, nSamples)
              ELSE IF Direction = "COLS"
                   THEN Resampler(Len(vCol), Len(vLine), Len(vCol), nSamples)
                   ELSE Resampler(Len(vCol), Len(vLine), nSamples, Len(vLine))
        nFinalCols == IF Direction \in {"ALL", "GRID", "LINES"} THEN nSamples ELSE Len(vCol)
        lineDirs == {"ALL", "GRID", "COLS"}
        colDirs  == {"ALL", "GRID", "LINES"}
        below == Len(vLine) < nSamples /\ Direction \in lineDirs
        lrest == Len(vLine) > nSamples /\ Direction \in lineDirs
        right == Len(vCol) < nSamples /\ Direction \in colDirs
        crest == Len(vCol) > nSamples /\ Direction \in colDirs
        \* the copy blocks, from the table t2 and the buffer s1 the resampled
        \* lines were stored to
        copies(t2, s1, mixed) ==
            LET st2 == IF below THEN belowStores(t2, vLine, vCol, retLine(rs), nOrigLines)
                       ELSE IF lrest THEN lineRestStores(vLine, vCol, nSamples) ELSE <<>>
                st3 == IF right
                       THEN rightStores(t2, vLine, vCol, nFinalCols, nOrigLines, nOrigCols)
                       ELSE IF crest THEN colRestStores(vLine, vCol, nSamples) ELSE <<>>
                \* the stores that end the copy with INTERNAL_RESAMPLER_ERROR
                lineDesync == {k \in 1..Len(st2) : st2[k][1] >= nLines(t2)}
                colDesync  == {k \in 1..Len(st3) : st3[k][2] >= nCols(t2)}
            IN  IF lineDesync # {}
                THEN ResampleResult(t2, "INTERNAL_RESAMPLER_ERROR",
                                    bufferStores(s1, st2, firstOf(lineDesync) - 1).ub, mixed)
                ELSE CHOOSE res \in {
                       IF colDesync # {}
                       THEN ResampleResult(t2, "INTERNAL_RESAMPLER_ERROR",
                                           bufferStores(s2, st3, firstOf(colDesync) - 1).ub, mixed)
                       ELSE CHOOSE done \in {
                              LET rows == IF nLines(t2) < Len(s3.buf)
                                          THEN nLines(t2) ELSE Len(s3.buf)
                                  bc   == IF Len(s3.buf) = 0 THEN 0 ELSE Len(s3.buf[1])
                                  cols == IF rows = 0 THEN 0
                                          ELSE IF nCols(t2) < bc THEN nCols(t2) ELSE bc
                              IN  CHOOSE copied \in {
                                     [ResampleResult(markModified(t3, time), "", s3.ub, mixed)
                                         EXCEPT !.need = <<front(vLine) + retLine(rs),
                                                           front(vCol) + nFinalCols>>] :
                                     t3 \in {copyBack(t2, s3.buf, rows, cols, rows * cols)}} : TRUE :
                              s3 \in {bufferStores(s2, st3, Len(st3))}} : TRUE :
                       s2 \in {bufferStores(s1, st2, Len(st2))}} : TRUE
        \* the resampled lines, stored to the buffer of the resized table t1
        stored(t1) ==
            LET samples == inputSamples(t1, vLine, vCol)
                st1 == resampledStores(rs, vLine, vCol, nFinalCols, outputSample(samples))
            IN  CHOOSE res \in {
                   \* nCalcCols = -1; nCalcLines = -1;
                   copies([t1 EXCEPT !.calc = -1], s1, Cardinality(samples) > 1) :
                   s1 \in {bufferStores(s0, st1, Len(st1)) :
                           s0 \in {BufferState(
                               dResampleBuffer(t1,
                                   bufferLines(nOrigLines, vLine, nSamples, Direction),
                                   bufferCols(nOrigCols, vCol, nSamples, Direction),
                                   nOrigLines, nOrigCols), FALSE)}}} : TRUE
    IN  CHOOSE res \in {IF r.err # ""
                        THEN ResampleResult(r.tab, r.err, FALSE, FALSE)
                        ELSE stored(r.tab) :
                        r \in {resampleResize(t, vLine, vCol, nSamples, Direction)}} : TRUE

\* Memory::resample; the selections are closed lists, bUseAppendedZeroes
\* stays false
RECURSIVE resample(_, _, _, _, _, _)
resample(t, vLine, vCol, nSamples, Direction, time) ==
    IF ~bValidData(t)
    THEN ResampleResult(t, "NO_CACHED_DATA", FALSE, FALSE)
    ELSE IF nSamples = 0
    THEN ResampleResult(t, "CANNOT_RESAMPLE_CACHE", FALSE, FALSE)
    ELSE IF ~isValid(vLine) \/ ~isValid(vCol)
    THEN ResampleResult(t, "INVALID_INDEX", FALSE, FALSE)
    ELSE
    LET vL == linearize(setRange(vLine, 0, nLines(t) - 1))
        vC == setRange(vCol, 0, nCols(t) - 1)
        D1 == IF Direction \in {"ALL", "GRID"} /\ Len(vL) < 4 THEN "LINES" ELSE Direction
        D  == IF D1 \in {"ALL", "GRID"} /\ Len(vC) < 4 THEN "COLS" ELSE D1
    IN  IF D = "GRID" /\ Len(vC) - 2 # Len(vL)
        THEN ResampleResult(t, "CANNOT_RESAMPLE_CACHE", FALSE, FALSE)
        ELSE IF D = "GRID"
        THEN CHOOSE res \in {
                 IF axes.err # ""
                 THEN axes
                 ELSE CHOOSE both \in {
                        [r EXCEPT !.ub = r.ub \/ axes.ub, !.mixed = r.mixed \/ axes.mixed] :
                        r \in {resampleBlock(axes.tab, nLines(t), nCols(t), vL,
                                             linearize(subidx(vC, 2, Len(vC))),
                                             nSamples, D, time)}} : TRUE :
                 axes \in {resample(t, vL, subidx(vC, 0, 2), nSamples, "COLS", time)}} : TRUE
        ELSE resampleBlock(t, nLines(t), nCols(t), vL,
                           IF D = "COLS" THEN linearize(vC) ELSE vC, nSamples, D, time)

---------------------------------------------------------------------------
(* Resampling, applied to every table of the bounds *)

\* the tables of up to MaxResampleLine + 1 lines: every column is materialized
\* and holds a valid cell in every line; and the table without data
ResampleTables ==
    {<<>>} \cup
    UNION {[1..k -> {[ex |-> TRUE, data |-> d, head |-> ""] :
                        d \in [1..n -> ResampleValues]}] :
              k \in 1..MAX_TABLE_COLS, n \in 1..(MaxResampleLine + 1)}

\* the selections of lines: no line, the first, the first two, the second and
\* third, and all lines
ResampleLineSels == {<<-1>>, <<0>>, <<0, 1>>, <<1, 2>>, Range(0, MaxResampleLine)}

\* the selections of columns: each column, both, and ranges of four and six
ResampleColSels == {<<0>>, <<1>>, <<0, 1>>, Range(0, 3), Range(0, 5)}

InitResample ==
    /\ memArray \in ResampleTables
    /\ nCalcLines = -1
    /\ bIsSaved = TRUE
    /\ nLastSaved = 0
    /\ now = 0
    /\ last = [op |-> "Memory"]

\* what is recorded of a call of resample: the arguments, the error, the
\* extents of the table at the call, and where the resampled block ends
ResampleCall(vLine, vCol, nSamples, Direction, err, t, need) ==
    [op |-> "resample", vLine |-> vLine, vCol |-> vCol, nSamples |-> nSamples,
     dir |-> Direction, err |-> err, nLines |-> nLines(t), nCols |-> nCols(t),
     need |-> need]

\* a store beyond the buffer either goes unnoticed or ends the program
DoResample(vLine, vCol, nSamples, Direction) ==
    \E r \in {resample(Current, vLine, vCol, nSamples, Direction, now)} :
        /\ ~r.mixed
        /\ \E err \in (IF r.ub THEN {r.err, "SIGSEGV"} ELSE {r.err}) :
              /\ Install(r.tab)
              /\ last' = ResampleCall(vLine, vCol, nSamples, Direction, err, Current, r.need)
        /\ UNCHANGED now

\* the calls made: every direction with every selection and sample count, on
\* blocks that hold one value
NextResample ==
    /\ last.op = "Memory"
    /\ \E vLine \in ResampleLineSels, vCol \in ResampleColSels,
          nSamples \in 0..MaxSamples, Direction \in AppDir :
          DoResample(vLine, vCol, nSamples, Direction)

SpecResample == InitResample /\ [][NextResample]_vars

\* C18: after a resample that ends without error, in every direction and for
\* every sample count above 0, the table has at least the columns and at least
\* the lines it had at the call, and at least the lines and the columns the
\* resampled block ends at.
C18_ResampleNeverShrinks ==
    (last.op = "resample" /\ last.err = "") =>
        /\ nCols(Current) >= last.nCols
        /\ nLines(Current) >= last.nLines
        /\ nLines(Current) >= last.need[1]
        /\ nCols(Current) >= last.need[2]


---------------------------------------------------------------------------
(* Grouped sorting with a nested key *)

\* C21: sortElements with cols= naming a key column A with one nested group,
\* the column B, on the lines i1..i2: afterwards the pairs (A, B) of the lines
\* i1..i2 are the pairs of before in another order, the valid values of A
\* ascend (descend with "desc") over i1..i2, and among the lines with the same
\* valid value of A the valid values of B ascend (descend).
C21_GroupedSort ==
    [][(/\ last'.op = "sortElements"
        /\ last'.expr.grouped /\ ~last'.expr.index
        /\ Len(last'.expr.cols) = 1
        /\ Len(last'.expr.cols[1].subkeys) = 1
        /\ last'.err = ""
        /\ DoSortElements(last'.i1, last'.i2, last'.j1, last'.j2, last'.expr, last'.tie)) =>
          LET i1 == last'.i1
              i2 == IF last'.i2 = -1 THEN i1 ELSE last'.i2
              colA == last'.j1 + last'.expr.cols[1].nKey[1]
              colB == last'.j1 + last'.expr.cols[1].subkeys[1][1]
              nSign == IF last'.expr.desc THEN -1 ELSE 1
              A(i) == dMemTable(Current, i, colA)
              B(i) == dMemTable(Current, i, colB)
              after == Tab(memArray', nCalcLines', bIsSaved', nLastSaved')
              A2(i) == dMemTable(after, i, colA)
              B2(i) == dMemTable(after, i, colB)
          IN  /\ \E pi \in [i1..i2 -> i1..i2] :
                    /\ \A l \in i1..i2 : \E k \in i1..i2 : pi[k] = l
                    /\ \A k \in i1..i2 : A2(k) = A(pi[k]) /\ B2(k) = B(pi[k])
              /\ \A k \in i1..i2, m \in i1..i2 :
                    (k < m /\ ~isnan(A2(k)) /\ ~isnan(A2(m))) =>
                        /\ nSign * A2(k) <= nSign * A2(m)
                        /\ (A2(k) = A2(m) /\ ~isnan(B2(k)) /\ ~isnan(B2(m))) =>
                              nSign * B2(k) <= nSign * B2(m)]_vars

---------------------------------------------------------------------------
(* Comparison of the cells of a selection with a reference value *)

\* the valid values of the tables cmp is called on, and the reference values:
\* below, between and above them
CmpValues == {1, 2, 3}

CmpRefs == {0, 2, 4}

\* the columns of these tables hold up to MaxCmpLine + 1 cells
MaxCmpLine == 1

\* the kinds of comparison: the sign selects the direction, the magnitude
\* what is returned and whether the first match ends the scan
CmpTypes == (0 - 4)..4

\* the flags of the comparison of kind _nType
cmpType(_nType) ==
    (IF _nType > 0 THEN {"RETURN_GE"} ELSE IF _nType < 0 THEN {"RETURN_LE"} ELSE {})
    \cup (CASE _nType \in {2, 0 - 2} -> {"RETURN_VALUE"}
            [] _nType \in {3, 0 - 3} -> {"RETURN_FIRST"}
            [] _nType \in {4, 0 - 4} -> {"RETURN_FIRST", "RETURN_VALUE"}
            [] OTHER -> {})

\* the position a cell is reported with: its column if the selection begins
\* and ends in the same line, its line otherwise (0-based)
cmpPosition(vLine, l, c) == IF vLine[1] = vLine[Len(vLine)] THEN c ELSE l

\* what cmp returns at once for the cell (l, c) of value v
cmpReturn(vLine, l, c, v, nType) ==
    IF "RETURN_VALUE" \in nType THEN v ELSE cmpPosition(vLine, l, c) + 1

\* a value above the reference that is as close as the kept one
closerGEOrEqual(v, dKeep) == v <= dKeep

\* a value above the reference replaces the kept one if it is closer
closerGE(v, dKeep) == v < dKeep

\* a value below the reference replaces the kept one if it is closer
closerLE(v, dKeep) == v > dKeep

\* the scan of the selection from its p-th cell on, lines outside, columns
\* inside, with the value and position kept so far
RECURSIVE cmpScan(_, _, _, _, _, _, _, _)
cmpScan(t, vLine, vCol, dRef, nType, p, dKeep, nKeep) ==
    IF p >= Len(vLine) * Len(vCol)
    THEN IF nKeep = 0 - 1
         THEN NaN
         ELSE IF "RETURN_VALUE" \in nType THEN dKeep ELSE nKeep + 1
    ELSE LET l == vLine[(p \div Len(vCol)) + 1]
             c == vCol[(p % Len(vCol)) + 1]
             v == dMemTable(t, l, c)
             skip == cmpScan(t, vLine, vCol, dRef, nType, p + 1, dKeep, nKeep)
             keep == cmpScan(t, vLine, vCol, dRef, nType, p + 1, v, cmpPosition(vLine, l, c))
         IN  IF l < 0 \/ l >= getLines(t) \/ c < 0 \/ c >= getCols(t)
             THEN skip
             ELSE IF isnan(v)
             THEN skip
             ELSE IF v = dRef
             THEN cmpReturn(vLine, l, c, v, nType)
             ELSE IF "RETURN_GE" \in nType /\ v > dRef
             THEN IF "RETURN_FIRST" \in nType
                  THEN cmpReturn(vLine, l, c, v, nType)
                  ELSE IF nKeep = 0 - 1 \/ closerGE(v, dKeep) THEN keep ELSE skip
             ELSE IF "RETURN_LE" \in nType /\ v < dRef
             THEN IF "RETURN_FIRST" \in nType
                  THEN cmpReturn(vLine, l, c, v, nType)
                  ELSE IF nKeep = 0 - 1 \/ closerLE(v, dKeep) THEN keep ELSE skip
             ELSE skip

cmp(t, vLine, vCol, dRef, _nType) ==
    IF ~bValidData(t)
    THEN NaN
    ELSE cmpScan(t, vLine, vCol, dRef, cmpType(_nType), 0, dRef, 0 - 1)

CmpCells == CmpValues \cup {NaN}

\* the tables of up to MAX_TABLE_COLS columns: a column is absent, or it is
\* materialized and holds a cell, valid or not, in each of MaxCmpLine + 1 lines
CmpTables ==
    UNION {[1..k -> {NullCol} \cup
                    {[ex |-> TRUE, data |-> d, head |-> ""] :
                        d \in [1..(MaxCmpLine + 1) -> CmpCells]}] :
              k \in 0..MAX_TABLE_COLS}

\* the selections of lines: each line, all lines in both orders, and a range
\* that ends behind the table
CmpLineSels ==
    {<<l>> : l \in 0..MaxCmpLine} \cup {Range(0, MaxCmpLine), <<1, 0>>, Range(0, MaxCmpLine + 1)}

\* the selections of columns: each column, both in both orders, and ranges
\* that begin before and end behind the table
CmpColSels == {<<0>>, <<1>>, <<0, 1>>, <<1, 0>>, <<0 - 1, 0>>, Range(0, MAX_TABLE_COLS)}

InitCmp ==
    /\ memArray \in CmpTables
    /\ nCalcLines = 0 - 1
    /\ bIsSaved = TRUE
    /\ nLastSaved = 0
    /\ now = 0
    /\ last = [op |-> "Memory"]

\* what is recorded of a call of cmp
CmpCall(vLine, vCol, dRef, _nType, ret) ==
    [op |-> "cmp", vLine |-> vLine, vCol |-> vCol, dRef |-> dRef, nType |-> _nType, ret |-> ret]

DoCmp(vLine, vCol, dRef, _nType) ==
    /\ last.op = "Memory"
    /\ last' = CmpCall(vLine, vCol, dRef, _nType, cmp(Current, vLine, vCol, dRef, _nType))
    /\ UNCHANGED <<memArray, nCalcLines, bIsSaved, nLastSaved, now>>

NextCmp ==
    \E vLine \in CmpLineSels, vCol \in CmpColSels, dRef \in CmpRefs, _nType \in CmpTypes :
        DoCmp(vLine, vCol, dRef, _nType)

SpecCmp == InitCmp /\ [][NextCmp]_vars

\* C22: a call of cmp answers with the first valid cell of the selection, in
\* the order lines outside and columns inside, that equals the reference; in
\* the first-match kinds with the first valid cell that equals the reference
\* or lies on the asked side of it; otherwise, without an equal cell, with
\* the smallest value above (largest value below) the reference and the
\* position of the first cell that holds it; with no such cell with NaN
C22_CmpTieBreak ==
    last.op = "cmp" =>
        LET vLine == last.vLine
            vCol == last.vCol
            dRef == last.dRef
            ge == last.nType > 0
            le == last.nType < 0
            first == last.nType \in {3, 4, 0 - 3, 0 - 4}
            value == last.nType \in {2, 4, 0 - 2, 0 - 4}
            n == Len(vLine) * Len(vCol)
            lineOf(k) == vLine[((k - 1) \div Len(vCol)) + 1]
            colOf(k) == vCol[((k - 1) % Len(vCol)) + 1]
            val(k) == dMemTable(Current, lineOf(k), colOf(k))
            valid == {k \in 1..n : /\ lineOf(k) >= 0 /\ lineOf(k) < getLines(Current)
                                   /\ colOf(k) >= 0 /\ colOf(k) < getCols(Current)
                                   /\ ~isnan(val(k))}
            equal == {k \in valid : val(k) = dRef}
            side == {k \in valid : (ge /\ val(k) > dRef) \/ (le /\ val(k) < dRef)}
            nearest == {k \in side : \A m \in side :
                                        IF ge THEN val(k) <= val(m) ELSE val(k) >= val(m)}
            firstOfSet(S) == CHOOSE k \in S : \A m \in S : k <= m
            answer(k) == IF value
                         THEN val(k)
                         ELSE IF vLine[1] = vLine[Len(vLine)] THEN colOf(k) + 1 ELSE lineOf(k) + 1
        IN  IF first
            THEN IF equal \cup side = {}
                 THEN isnan(last.ret)
                 ELSE last.ret = answer(firstOfSet(equal \cup side))
            ELSE IF equal # {}
            THEN last.ret = answer(firstOfSet(equal))
            ELSE IF side = {}
            THEN isnan(last.ret)
            ELSE last.ret = answer(firstOfSet(nearest))

\* a call for the position of the nearest value above 2 in a column that
\* holds 3 in both lines answers with the first line
C22_Witness ==
    /\ last.op = "cmp"
    /\ last.nType = 1
    /\ last.dRef = 2
    /\ last.vLine = Range(0, MaxCmpLine)
    /\ last.vCol = <<0>>
    /\ dMemTable(Current, 0, 0) = 3
    /\ dMemTable(Current, 1, 0) = 3
    /\ last.ret = 1

---------------------------------------------------------------------------
(* The boundary around a missing cell *)

\* the tables findValidBoundary is called on hold MaxBoundaryLine + 1 lines
\* and up to MaxBoundaryCol + 1 columns
MaxBoundaryLine == 2

MaxBoundaryCol == 2

BoundaryCells == {5, NaN}

\* every column is materialized and holds a cell, valid or not, in every line
BoundaryTables ==
    UNION {[1..k -> {[ex |-> TRUE, data |-> d, head |-> ""] :
                        d \in [1..(MaxBoundaryLine + 1) -> BoundaryCells]}] :
              k \in 1..(MaxBoundaryCol + 1)}

\* the number of passes of the loop of findValidBoundary from the boundary b
\* on, the last one, which moves no edge, included; passes are counted up to
\* the limit fuel
RECURSIVE boundaryPasses(_, _, _, _, _)
boundaryPasses(t, vLine, vCol, b, fuel) ==
    CHOOSE r \in
        {IF b4 = b \/ fuel = 0
         THEN 1
         ELSE 1 + boundaryPasses(t, vLine, vCol, b4, fuel - 1) :
            b4 \in {growBottom(t, vLine, b3) :
               b3 \in {growTop(t, vLine, b2) :
                  b2 \in {growRight(t, vCol, b1) :
                     b1 \in {growLeft(t, vCol, b)}}}}} : TRUE

InitBoundary ==
    /\ memArray \in BoundaryTables
    /\ nCalcLines = 0 - 1
    /\ bIsSaved = TRUE
    /\ nLastSaved = 0
    /\ now = 0
    /\ last = [op |-> "Memory"]

\* what is recorded of a call of findValidBoundary
BoundaryCall(vLine, vCol, i, j, b, passes) ==
    [op |-> "findValidBoundary", vLine |-> vLine, vCol |-> vCol, i |-> i, j |-> j,
     b |-> b, passes |-> passes]

\* a call as retouch2D makes it: for a missing cell of its selection, which is
\* a range of lines and a range of columns of the table
DoFindValidBoundary(vLine, vCol, i, j) ==
    /\ last.op = "Memory"
    /\ i \in Elems(vLine) /\ j \in Elems(vCol)
    /\ isnan(dMemTable(Current, i, j))
    /\ last' = BoundaryCall(vLine, vCol, i, j, findValidBoundary(Current, vLine, vCol, i, j),
                            boundaryPasses(Current, vLine, vCol, Boundary(i - 1, j - 1, 2, 2),
                                           Len(vLine) + Len(vCol) + 1))
    /\ UNCHANGED <<memArray, nCalcLines, bIsSaved, nLastSaved, now>>

NextBoundary ==
    \E l1 \in 0..MaxBoundaryLine, l2 \in 0..MaxBoundaryLine,
       c1 \in 0..MaxBoundaryCol, c2 \in 0..MaxBoundaryCol,
       i \in 0..MaxBoundaryLine, j \in 0..MaxBoundaryCol :
        /\ l1 <= l2 /\ c1 <= c2 /\ c2 < nCols(Current)
        /\ DoFindValidBoundary(Range(l1, l2), Range(c1, c2), i, j)

SpecBoundary == InitBoundary /\ [][NextBoundary]_vars

\* C23: a call of findValidBoundary for a missing cell (i, j) of the selection
\* ends after at most one pass per line and column of the selection and one
\* more; the boundary it returns has (i, j) strictly inside; and each of its
\* four edges holds no missing cell of the table or lies at or outside the
\* first or last line or column of the selection
C23_BoundaryValidOrClipped ==
    last.op = "findValidBoundary" =>
        LET b == last.b
            valid(n, m) == ~isnan(dMemTable(Current, n, m))
            inTable(n, m) == n >= 0 /\ n < nLines(Current) /\ m >= 0 /\ m < nCols(Current)
        IN  /\ last.passes <= Len(last.vLine) + Len(last.vCol) + 1
            /\ rf(b) < last.i /\ last.i < re(b)
            /\ cf(b) < last.j /\ last.j < ce(b)
            /\ \/ cf(b) <= front(last.vCol)
               \/ \A n \in rf(b)..re(b) : inTable(n, cf(b)) => valid(n, cf(b))
            /\ \/ ce(b) >= lastIndex(last.vCol)
               \/ \A n \in rf(b)..re(b) : inTable(n, ce(b)) => valid(n, ce(b))
            /\ \/ rf(b) <= front(last.vLine)
               \/ \A m \in cf(b)..ce(b) : inTable(rf(b), m) => valid(rf(b), m)
            /\ \/ re(b) >= lastIndex(last.vLine)
               \/ \A m \in cf(b)..ce(b) : inTable(re(b), m) => valid(re(b), m)

\* a boundary that has grown to the right over a column with a missing cell,
\* and whose upper edge is a line of valid cells behind the first line of the
\* selection
C23_Witness ==
    /\ last.op = "findValidBoundary"
    /\ last.passes > 1
    /\ ce(last.b) > last.j + 1
    /\ rf(last.b) > front(last.vLine)
    /\ \A m \in 0..ce(last.b) : ~isnan(dMemTable(Current, rf(last.b), m))

---------------------------------------------------------------------------
(* The resampler and the loop that feeds and drains it *)

\* the reach of the kernel: an output line is made of the input line nearest
\* to it and of up to MaxReach lines on either side
MaxReach == 1

\* the highest number of input lines the scan buffer of the resampler holds
MaxScanBuf == 3

\* the resampler at work: src_y input lines make dst_y output lines; cur_src
\* lines are accepted and cur_dst delivered, scan holds the accepted lines
\* still kept for a later output line, of which it holds at most cap
ResamplerState(src_y, dst_y, reach, cap) ==
    [src_y |-> src_y, dst_y |-> dst_y, reach |-> reach, cap |-> cap,
     cur_src |-> 0, cur_dst |-> 0, scan |-> {}, status |-> "STATUS_OKAY"]

\* the input lines the output line k is made of, clamped at both ends
contributors(rs, k) ==
    LET c == ((2 * k + 1) * rs.src_y) \div (2 * rs.dst_y)
    IN  {s \in 0..(rs.src_y - 1) : s >= c - rs.reach /\ s <= c + rs.reach}

\* the input lines an output line from k on is made of
contributing(rs, k) == UNION {contributors(rs, d) : d \in k..(rs.dst_y - 1)}

\* Resampler::put_line: refused after the last input line, and with the
\* status STATUS_SCAN_BUFFER_FULL while the scan buffer has no room; a line
\* no output line is made of is accepted and not kept
put_line(rs) ==
    IF rs.cur_src >= rs.src_y
    THEN [ok |-> FALSE, rs |-> rs]
    ELSE IF rs.cur_src \notin contributing(rs, rs.cur_dst)
    THEN [ok |-> TRUE, rs |-> [rs EXCEPT !.cur_src = rs.cur_src + 1]]
    ELSE IF Cardinality(rs.scan) >= rs.cap
    THEN [ok |-> FALSE, rs |-> [rs EXCEPT !.status = "STATUS_SCAN_BUFFER_FULL"]]
    ELSE [ok |-> TRUE, rs |-> [rs EXCEPT !.cur_src = rs.cur_src + 1,
                                         !.scan = rs.scan \cup {rs.cur_src}]]

\* Resampler::get_line: null (line -1) after the last output line and while
\* an input line of the next one is not accepted yet; otherwise the next
\* output line, and the input lines no later one is made of leave the buffer
get_line(rs) ==
    IF rs.cur_dst = rs.dst_y \/ \E s \in contributors(rs, rs.cur_dst) : s >= rs.cur_src
    THEN [line |-> 0 - 1, rs |-> rs]
    ELSE [line |-> rs.cur_dst,
          rs |-> [rs EXCEPT !.cur_dst = rs.cur_dst + 1,
                            !.scan = rs.scan \cap contributing(rs, rs.cur_dst + 1)]]

\* the state of the loop: the resampler, the input lines accepted, the input
\* lines put again after a drain and whether they were accepted then, the
\* output lines got with the buffer line each was stored in, _ret_line and
\* the error thrown
LoopState(rs) ==
    [rs |-> rs, accepted |-> <<>>, retried |-> <<>>, stored |-> <<>>, ret_line |-> 0,
     err |-> ""]

\* a loop that does not drain
drainNot(st, nFront) == st

\* while (true) { dOutputSamples = get_line(); if (!dOutputSamples) break;
\* ... dResampleBuffer[_vLine.front() + _ret_line] ...; _ret_line++; }
RECURSIVE drain(_, _)
drain(st, nFront) ==
    CHOOSE r \in
        {IF g.line = 0 - 1
         THEN st
         ELSE drain([st EXCEPT !.rs = g.rs,
                               !.stored = Append(st.stored, <<nFront + st.ret_line, g.line>>),
                               !.ret_line = st.ret_line + 1], nFront) :
            g \in {get_line(st.rs)}} : TRUE

\* _resampler->put_line(dInputSamples) for the line again, after the drain d;
\* what it returns is not looked at
putLineAgain(d, line) ==
    CHOOSE r \in
        {[d EXCEPT !.rs = q.rs,
                   !.retried = Append(d.retried, <<line, q.ok>>),
                   !.accepted = IF q.ok THEN Append(d.accepted, line) ELSE d.accepted] :
            q \in {put_line(d.rs)}} : TRUE

\* the body of the loop over _vLine for the line at the position i
putLine(st, vLine, i) ==
    CHOOSE r \in
        {IF p.ok
         THEN [st EXCEPT !.rs = p.rs, !.accepted = Append(st.accepted, vLine[i + 1])]
         ELSE IF p.rs.status # "STATUS_SCAN_BUFFER_FULL"
         THEN [st EXCEPT !.rs = p.rs, !.err = "INTERNAL_RESAMPLER_ERROR"]
         ELSE CHOOSE r2 \in
                 {putLineAgain(d, vLine[i + 1]) :
                     d \in {drain([st EXCEPT !.rs = p.rs], front(vLine))}} : TRUE :
            p \in {put_line(st.rs)}} : TRUE

\* for (size_t i = 0; i < _vLine.size(); i++), and the drain of the remaining
\* lines behind it
RECURSIVE resampleLoop(_, _, _)
resampleLoop(st, vLine, i) ==
    IF st.err # ""
    THEN st
    ELSE IF i >= Len(vLine)
    THEN drain(st, front(vLine))
    ELSE CHOOSE r \in
            {resampleLoop(s1, vLine, i + 1) : s1 \in {putLine(st, vLine, i)}} : TRUE

\* what is recorded of a run of the loop
LoopCall(vLine, rs, st) ==
    [op |-> "resampleLoop", vLine |-> vLine, dst_y |-> rs.dst_y, cap |-> rs.cap,
     reach |-> rs.reach, accepted |-> st.accepted, retried |-> st.retried,
     stored |-> st.stored, ret_line |-> st.ret_line, err |-> st.err]

\* the loop of a call of resample with the lines l1..l2 of the table selected
\* and dst_y lines to make; the scan buffer has room for the input lines of
\* one output line at least
DoResampleLoop(l1, l2, dst_y, reach, cap) ==
    /\ last.op = "Memory"
    /\ l1 <= l2 /\ l2 < nLines(Current)
    /\ cap >= 2 * reach + 1
    /\ \E rs \in {ResamplerState(l2 - l1 + 1, dst_y, reach, cap)} :
          last' = LoopCall(Range(l1, l2), rs, resampleLoop(LoopState(rs), Range(l1, l2), 0))
    /\ UNCHANGED <<memArray, nCalcLines, bIsSaved, nLastSaved, now>>

NextLoop ==
    \E l1 \in 0..MaxResampleLine, l2 \in 0..MaxResampleLine, dst_y \in 1..MaxSamples,
       reach \in 0..MaxReach, cap \in 1..MaxScanBuf :
        DoResampleLoop(l1, l2, dst_y, reach, cap)

SpecLoop == InitResample /\ [][NextLoop]_vars

---------------------------------------------------------------------------
(* The resampled block and the lines below it *)

\* C25: resample in the direction COLS of lines and columns of the table to
\* nSamples lines, ending without error: afterwards the lines front ..
\* front + nSamples - 1 of the selected columns hold the output lines of the
\* resampler, which for a block of one value are that value, and the lines
\* that were below the selected ones hold their values in the lines from
\* front + nSamples on, in their order
C25_RowBlockAndRest ==
    [][(/\ last'.op = "resample"
        /\ last'.err = ""
        /\ last'.dir = "COLS"
        /\ \A x \in Elems(last'.vLine) : x >= 0 /\ x < nLines(Current)
        /\ \A x \in Elems(last'.vCol) : x >= 0 /\ x < nCols(Current)
        /\ Cardinality(Elems(last'.vCol)) = Len(last'.vCol)
        /\ DoResample(last'.vLine, last'.vCol, last'.nSamples, last'.dir)) =>
          LET vLine == last'.vLine
              vCol == last'.vCol
              nSamples == last'.nSamples
              after == Tab(memArray', nCalcLines', bIsSaved', nLastSaved')
          IN  /\ \A k \in 0..(nSamples - 1), c \in Elems(vCol) :
                    dMemTable(after, front(vLine) + k, c) = dMemTable(Current, front(vLine), c)
              /\ \A i \in (lastIndex(vLine) + 1)..(nLines(Current) - 1), c \in Elems(vCol) :
                    dMemTable(after, front(vLine) + nSamples + i - (lastIndex(vLine) + 1), c)
                        = dMemTable(Current, i, c)]_vars


\* C26: a call of resample that ends with an error leaves every cell of the
\* table, and the number of its columns, as it was at the call
C26_ErrorLeavesTable ==
    [][(/\ last'.op = "resample"
        /\ last'.err \notin {"", "SIGSEGV"}
        /\ DoResample(last'.vLine, last'.vCol, last'.nSamples, last'.dir)) =>
          LET after == Tab(memArray', nCalcLines', bIsSaved', nLastSaved')
          IN  /\ nCols(after) = nCols(Current)
              /\ \A i \in 0..MaxResampleLine, j \in 0..(nCols(Current) - 1) :
                    dMemTable(after, i, j) = dMemTable(Current, i, j)]_vars

---------------------------------------------------------------------------
(* Import of a table into a selection *)

\* the highest line of the tables imported into and of the tables imported
MaxImportLine == 1

\* the values of the cells of the imported tables
ImportedValues == {7}

\* NumeRe::Table: a table of nl lines and nc columns that holds the value v in
\* every cell and has the heads `head`
Table(nl, nc, v, head) == [lines |-> nl, cols |-> nc, value |-> v, head |-> head]

\* VectorIndex::max of a selection
maxIndex(v) == CHOOSE x \in Elems(v) : \A y \in Elems(v) : y <= x

\* the loops over the cells of the imported table, cell by cell: k counts the
\* cells (i, j) with i < lines.size() and j < cols.size()
RECURSIVE importCells(_, _, _, _, _, _)
importCells(r, table, lines, cols, time, k) ==
    LET nl == IF table.lines < Len(lines) THEN table.lines ELSE Len(lines)
        nc == IF table.cols < Len(cols) THEN table.cols ELSE Len(cols)
    IN  IF r.err # "" \/ k >= nl * nc
        THEN r
        ELSE CHOOSE r2 \in
                {importCells(r1, table, lines, cols, time, k + 1) :
                    r1 \in {writeData(r.tab, lines[(k \div nc) + 1], cols[(k % nc) + 1],
                                      table.value, time)}} : TRUE

\* sHeadLine[cols[j]] = _table.getHead(j) for the heads of a length above 0
RECURSIVE importHeads(_, _, _, _)
importHeads(t, table, cols, j) ==
    IF j >= table.cols \/ j >= Len(cols)
    THEN t
    ELSE importHeads(IF table.head # "" /\ cols[j + 1] < Len(t.mem) /\ t.mem[cols[j + 1] + 1].ex
                     THEN [t EXCEPT !.mem[cols[j + 1] + 1].head = table.head]
                     ELSE t, table, cols, j + 1)

\* Memory::importTable; the selections are closed lists
importTable(t, table, lines, cols, time) ==
    CHOOSE r \in
        {IF r1.err # ""
         THEN r1
         ELSE CHOOSE r3 \in
                 {IF r2.err # "" THEN r2 ELSE Ok(importHeads(r2.tab, table, cols, 0)) :
                     r2 \in {importCells(r1, table, lines, cols, time, 0)}} : TRUE :
            r1 \in {resizeMemory(deleteBulk(t, lines, cols, time),
                                 maxIndex(lines), maxIndex(cols))}} : TRUE

ImportCells == {1, NaN}

\* the tables imported into: up to MAX_TABLE_COLS columns, each absent or
\* materialized with a cell, valid or not, in each of MaxImportLine + 1 lines
ImportTables ==
    UNION {[1..k -> {NullCol} \cup
                    {[ex |-> TRUE, data |-> d, head |-> ""] :
                        d \in [1..(MaxImportLine + 1) -> ImportCells]}] :
              k \in 0..MAX_TABLE_COLS}

\* the selections of lines and of columns: each one, and all in order
ImportLineSels == {<<l>> : l \in 0..MaxImportLine} \cup {Range(0, MaxImportLine)}

ImportColSels == {<<c>> : c \in 0..(MAX_TABLE_COLS - 1)} \cup {Range(0, MAX_TABLE_COLS - 1)}

InitImport ==
    /\ memArray \in ImportTables
    /\ nCalcLines = 0 - 1
    /\ bIsSaved = TRUE
    /\ nLastSaved = 0
    /\ now = 0
    /\ last = [op |-> "Memory"]

\* what is recorded of a call of importTable
ImportCall(table, lines, cols, err) ==
    [op |-> "importTable", table |-> table, lines |-> lines, cols |-> cols, err |-> err]

DoImportTable(table, lines, cols) ==
    \E r \in {importTable(Current, table, lines, cols, now)} :
        /\ Install(r.tab)
        /\ last' = ImportCall(table, lines, cols, r.err)
        /\ UNCHANGED now

NextImport ==
    /\ last.op = "Memory"
    /\ \E nl \in 1..(MaxImportLine + 1), nc \in 1..MAX_TABLE_COLS, v \in ImportedValues,
          head \in {"", "h"}, lines \in ImportLineSels, cols \in ImportColSels :
          DoImportTable(Table(nl, nc, v, head), lines, cols)

SpecImport == InitImport /\ [][NextImport]_vars

\* C27: a call of importTable that ends without error leaves every cell of
\* the table whose line or column is not in the selection as it was, and the
\* table has at least as many columns as before
C27_ImportKeepsOutside ==
    [][(/\ last'.op = "importTable"
        /\ last'.err = ""
        /\ DoImportTable(last'.table, last'.lines, last'.cols)) =>
          LET after == Tab(memArray', nCalcLines', bIsSaved', nLastSaved')
          IN  /\ nCols(after) >= nCols(Current)
              /\ \A i \in 0..MaxImportLine, j \in 0..(nCols(Current) - 1) :
                    (i \notin Elems(last'.lines) \/ j \notin Elems(last'.cols)) =>
                        dMemTable(after, i, j) = dMemTable(Current, i, j)]_vars

---------------------------------------------------------------------------
(* The positions of the sorting index *)

\* C28: in a call of sortElements on the lines i1..i2 no store goes behind
\* the end of the sorting index, and the call does not abort; a sort without
\* "index" and without cols= leaves every line outside of i1..i2 as it was
\* and the valid values of each column j1..j2 ordered over the lines i1..i2
C28_SortIndexInBounds ==
    [][(/\ last'.op = "sortElements"
        /\ DoSortElements(last'.i1, last'.i2, last'.j1, last'.j2, last'.expr, last'.tie)) =>
          LET i1 == last'.i1
              i2 == IF last'.i2 = -1 THEN i1 ELSE last'.i2
              j1 == last'.j1
              j2 == IF last'.j2 = -1 THEN j1 ELSE last'.j2
              nSign == IF last'.expr.desc THEN -1 ELSE 1
              after == Tab(memArray', nCalcLines', bIsSaved', nLastSaved')
          IN  /\ \A r \in {sortElements(Current, last'.i1, last'.i2, last'.j1, last'.j2,
                                        last'.expr, last'.tie, now)} : ~r.oob
              /\ last'.err # "abort"
              /\ (~last'.expr.index /\ ~last'.expr.grouped) =>
                    /\ \A i \in 0..MaxSortLine, j \in 0..(Len(memArray) - 1) :
                          (i < i1 \/ i > i2) => dMemTable(after, i, j) = dMemTable(Current, i, j)
                    /\ \A j \in j1..j2, k \in i1..i2, m \in i1..i2 :
                          (k < m /\ ~isnan(dMemTable(after, m, j))) =>
                              /\ ~isnan(dMemTable(after, k, j))
                              /\ nSign * dMemTable(after, k, j) <= nSign * dMemTable(after, m, j)]_vars

---------------------------------------------------------------------------
(* The positions of the minimum and of the maximum *)

\* cmp(_vLine, _vCol, min(_vLine, _vCol), 0), or with max: the position of
\* the first cell that holds the extremum f of the selection
extremumPos(t, f, vLine, vCol) ==
    cmp(t, vLine, vCol, IF f = "minpos" THEN min(t, vLine, vCol) ELSE max(t, vLine, vCol), 0)

\* the loop over _vIndex in the direction COLS, from the position j on
RECURSIVE posCols(_, _, _, _, _, _)
posCols(t, f, vIndex, nGridOffset, j, vPos) ==
    IF j >= Len(vIndex)
    THEN vPos
    ELSE posCols(t, f, vIndex, nGridOffset, j + 1,
                 IF vIndex[j + 1] < nGridOffset \/ vIndex[j + 1] >= getCols(t)
                 THEN vPos
                 ELSE Append(vPos, extremumPos(t, f, Range(0, getLines(t) - 1),
                                               <<vIndex[j + 1]>>)))

\* the state of the loop over the lines: the positions found, the extremum
\* dMin or dMax so far, the position in _vIndex of its line, and whether a
\* read went outside of the table
PosState(vPos, d, pos, ub) == [vPos |-> vPos, d |-> d, pos |-> pos, ub |-> ub]

\* dMin > cell, or dMax < cell; a comparison with NaN is false
beyond(f, d, cell) ==
    ~isnan(cell) /\ (IF f = "minpos" THEN d > cell ELSE d < cell)

\* the body of the loop over the lines for a line l of the table at the
\* position i: dMemTable[l][intCast(vPos.back()) - 1] is a read outside of
\* the table where vPos.back() is NaN, and yields the value `garbage`
posLine(t, f, l, i, nGridOffset, s, garbage) ==
    CHOOSE r \in
        {CHOOSE r2 \in
            {IF isnan(s.d) \/ beyond(f, s.d, cell)
             THEN PosState(Append(s.vPos, p), cell, i, s.ub \/ isnan(p))
             ELSE PosState(Append(s.vPos, p), s.d, s.pos, s.ub \/ isnan(p)) :
                cell \in {IF isnan(p) THEN garbage ELSE dMemTable(t, l, p - 1)}} : TRUE :
            p \in {extremumPos(t, f, <<l>>, Range(nGridOffset, getCols(t) - 1))}} : TRUE

\* the loop over _vIndex in the direction of the lines, from the position i on
RECURSIVE posLines(_, _, _, _, _, _, _)
posLines(t, f, vIndex, nGridOffset, i, s, garbage) ==
    IF i >= Len(vIndex)
    THEN s
    ELSE CHOOSE r \in
            {posLines(t, f, vIndex, nGridOffset, i + 1, s1, garbage) :
                s1 \in {IF vIndex[i + 1] < 0 \/ vIndex[i + 1] >= getLines(t)
                        THEN s
                        ELSE posLine(t, f, vIndex[i + 1], i, nGridOffset, s, garbage)}} : TRUE

\* what minpos and maxpos yield: the vector returned and whether a read went
\* outside of the table or of the vector
PosResult(ret, ub) == [ret |-> ret, ub |-> ub]

\* Memory::minpos (f = "minpos") and Memory::maxpos (f = "maxpos"); the
\* selection is a closed list
minmaxpos(t, f, vIndex, dir, garbage) ==
    IF ~bValidData(t)
    THEN PosResult(<<NaN>>, FALSE)
    ELSE IF dir = "COLS"
    THEN CHOOSE r \in
            {PosResult(IF vPos = <<>> THEN <<NaN>> ELSE vPos, FALSE) :
                vPos \in {posCols(t, f, vIndex, 0, 0, <<>>)}} : TRUE
    ELSE CHOOSE r \in
            {IF s.vPos = <<>>
             THEN PosResult(<<NaN>>, s.ub)
             ELSE IF dir \in {"ALL", "GRID"}
             THEN IF s.pos < Len(s.vPos)
                  THEN PosResult(<<vIndex[s.pos + 1] + 1, s.vPos[s.pos + 1]>>, s.ub)
                  ELSE PosResult(<<vIndex[s.pos + 1] + 1, garbage>>, TRUE)
             ELSE PosResult(s.vPos, s.ub) :
                s \in {posLines(t, f, vIndex, IF dir = "GRID" THEN 2 ELSE 0, 0,
                                PosState(<<>>, NaN, 0, FALSE), garbage)}} : TRUE

\* the selections: each line, both, and lists that begin before and end
\* behind the table
PosSels == {<<0>>, <<1>>, <<0, 1>>, <<0 - 1, 0>>, <<0, MaxCmpLine + 1>>}

\* what is recorded of a call of minpos or maxpos
PosCall(f, vIndex, dir, ret, ub, err) ==
    [op |-> f, vIndex |-> vIndex, dir |-> dir, ret |-> ret, ub |-> ub, err |-> err]

\* a call on a table of the bounds; a read outside of the table yields any
\* value or ends the program
DoMinMaxPos(f, vIndex, dir, garbage) ==
    /\ last.op = "Memory"
    /\ \E r \in {minmaxpos(Current, f, vIndex, dir, garbage)} :
          \E err \in (IF r.ub THEN {"", "SIGSEGV"} ELSE {""}) :
              last' = PosCall(f, vIndex, dir, IF err = "" THEN r.ret ELSE <<>>, r.ub, err)
    /\ UNCHANGED <<memArray, nCalcLines, bIsSaved, nLastSaved, now>>

\* the calls made: in the directions LINES, COLS and ALL (GRID scans the
\* columns from the third on, which these tables do not have)
NextPos ==
    \E f \in {"minpos", "maxpos"}, vIndex \in PosSels, dir \in {"LINES", "COLS", "ALL"},
       garbage \in CmpCells :
        DoMinMaxPos(f, vIndex, dir, garbage)

SpecPos == InitCmp /\ [][NextPos]_vars

\* C29: a call of minpos or maxpos in the direction LINES or ALL reads no
\* cell outside of the table and no element outside of its vector; in the
\* direction LINES it returns, for each selected line of the table in turn,
\* NaN or the 1-based column of a cell that holds the minimum (maximum) of
\* the line; in the direction ALL it returns NaN or the 1-based line and
\* column of a cell that holds the minimum (maximum) of the selected lines
C29_PositionsInTable ==
    (last.op \in {"minpos", "maxpos"} /\ last.dir \in {"LINES", "ALL"}) =>
        LET t == Current
            lines == SelectSeq(last.vIndex, LAMBDA l : l >= 0 /\ l < getLines(t))
            cells(l) == {dMemTable(t, l, c) : c \in 0..(getCols(t) - 1)} \ {NaN}
            extremum(S, x) == x \in S /\ \A y \in S : IF last.op = "minpos" THEN x <= y ELSE x >= y
            held(l, c) == c >= 1 /\ c <= getCols(t) /\ ~isnan(dMemTable(t, l, c - 1))
        IN  /\ ~last.ub
            /\ last.err = ""
            /\ last.dir = "LINES" =>
                  IF lines = <<>>
                  THEN last.ret = <<NaN>>
                  ELSE /\ Len(last.ret) = Len(lines)
                       /\ \A k \in 1..Len(lines) :
                             \/ isnan(last.ret[k])
                             \/ /\ held(lines[k], last.ret[k])
                                /\ extremum(cells(lines[k]),
                                            dMemTable(t, lines[k], last.ret[k] - 1))
            /\ last.dir = "ALL" =>
                  \/ last.ret = <<NaN>>
                  \/ /\ Len(last.ret) = 2
                     /\ last.ret[1] - 1 \in Elems(lines)
                     /\ held(last.ret[1] - 1, last.ret[2])
                     /\ extremum(UNION {cells(l) : l \in Elems(lines)},
                                 dMemTable(t, last.ret[1] - 1, last.ret[2] - 1))

---------------------------------------------------------------------------
(* The axis columns of a grid *)

\* C30: retouch in the direction GRID: with 4 selected lines and 4 selected
\* columns or more, the first two selected columns hold afterwards what the
\* retouch of these two in the direction COLS gives them, and the table is
\* the one retouch2D makes of that table on the lines and the remaining
\* columns; with fewer than 4 lines the table is the one retouch1D makes in
\* the direction LINES, otherwise with fewer than 4 columns the one it makes
\* in the direction COLS, of the whole selection
C30_GridAxesFirst ==
    [][(/\ last'.op = "retouch"
        /\ last'.dir = "GRID"
        /\ last'.ret
        /\ DoRetouch(last'.vLine, last'.vCol, last'.dir)) =>
          LET t == Current
              after == Tab(memArray', nCalcLines', bIsSaved', nLastSaved')
              vLine == setRange(last'.vLine, 0, nLines(t) - 1)
              vCol == setRange(last'.vCol, 0, nCols(t) - 1)
              axes == subidx(vCol, 0, 2)
              t1 == retouch1D(t, vLine, axes, "COLS", now)
          IN  IF Len(vLine) < 4
              THEN after.mem = retouch1D(t, vLine, vCol, "LINES", now).mem
              ELSE IF Len(vCol) < 4
              THEN after.mem = retouch1D(t, vLine, vCol, "COLS", now).mem
              ELSE /\ \A i \in 0..MaxRetouchLine, c \in Elems(axes) :
                         dMemTable(after, i, c) = dMemTable(t1, i, c)
                   /\ after.mem = retouch2D(t1, linearize(vLine),
                                            linearize(subidx(vCol, 2, Len(vCol))), now).tab.mem]_vars

====
